---- MODULE Spec2Model ----
(***************************************************************************)
(* The Raven (craven) execution engine: NaN-boxed values, the open         *)
(* addressed hash table, the heap with its mark-sweep collector, string    *)
(* interning, the single-pass compiler and the bytecode interpreter.       *)
(*                                                                         *)
(* Conventions.  A machine record m mirrors struct VM field by field and   *)
(* carries, besides, the C heap the VM owns (heap: address -> object, an   *)
(* address is never handed out twice), the two output streams and ub, set  *)
(* once the C code has executed undefined behaviour (from there on the     *)
(* build may do anything, and the run is stopped).  Handlers are operators *)
(* from a machine record to a machine record, composed in the order of the *)
(* C statements; an action applies the whole handler.  C arrays are        *)
(* 0-based, sequences 1-based: C index i is element i + 1.                 *)
(***************************************************************************)
EXTENDS Integers, Sequences, FiniteSets, Bags, TLC

VARIABLES vm, result, program, table, expect

vars == <<vm, result, program, table, expect>>

NULL == 0

\* a C local: the expression is evaluated first and once, and Body reads its value
With(value, Body(_)) == CHOOSE out \in {Body(local) : local \in {value}} : TRUE

(***************************************************************************)
(* Values (value.h, the NAN_BOXING layout: table.h and vm_utils.h declare  *)
(* Value as uint64_t).  A value is a double, a quiet NaN carrying a tag, or*)
(* a quiet NaN with the sign bit carrying an object address.               *)
(***************************************************************************)
TAG_NIL == 1

TAG_FALSE == 2

TAG_TRUE == 3

TAG_EMPTY == 3

QNAN(tag) == [t |-> "qnan", v |-> tag]

NIL_VAL == QNAN(TAG_NIL)

FALSE_VAL == QNAN(TAG_FALSE)

TRUE_VAL == QNAN(TAG_TRUE)

EMPTY_VAL == QNAN(TAG_EMPTY)

NUMBER_VAL(num) == [t |-> "num", v |-> num]

OBJ_VAL(obj) == [t |-> "obj", v |-> obj]

BOOL_VAL(b) == IF b THEN TRUE_VAL ELSE FALSE_VAL

\* ((value) | 1) == TRUE_VAL
IS_BOOL(value) == value.t = "qnan" /\ QNAN(value.v - (value.v % 2) + 1) = TRUE_VAL

IS_NIL(value) == value = NIL_VAL

IS_NUMBER(value) == value.t = "num"

IS_OBJ(value) == value.t = "obj"

IS_EMPTY(value) == value = EMPTY_VAL

AS_BOOL(value) == value = TRUE_VAL

AS_NUMBER(value) == value.v

AS_OBJ(value) == value.v

(***************************************************************************)
(* A double of the model is a whole number or NAN, the one value the       *)
(* division 0 / 0 yields; NAN is coded by a number below every whole       *)
(* number a program of the model computes.  The operators of C on doubles:  *)
(* NAN compares unequal to, and neither above nor below, every double,     *)
(* itself included; arithmetic on NAN yields NAN.                          *)
(***************************************************************************)
NAN == -(2 ^ 30)

isnan(x) == x = NAN

doubleEqual(a, b) == ~isnan(a) /\ ~isnan(b) /\ a = b

doubleGreater(a, b) == ~isnan(a) /\ ~isnan(b) /\ a > b

doubleLess(a, b) == ~isnan(a) /\ ~isnan(b) /\ a < b

doubleAdd(a, b) == IF isnan(a) \/ isnan(b) THEN NAN ELSE a + b

doubleSubtract(a, b) == IF isnan(a) \/ isnan(b) THEN NAN ELSE a - b

doubleMultiply(a, b) == IF isnan(a) \/ isnan(b) THEN NAN ELSE a * b

doubleNegate(a) == IF isnan(a) THEN NAN ELSE -a

\* valuesEqual that knows numbers only.
valuesEqualNumbers(a, b) ==
    IS_NUMBER(a) /\ IS_NUMBER(b) /\ doubleEqual(AS_NUMBER(a), AS_NUMBER(b))

valuesEqual(a, b) ==
    IF IS_NUMBER(a) /\ IS_NUMBER(b) THEN doubleEqual(AS_NUMBER(a), AS_NUMBER(b)) ELSE a = b

(***************************************************************************)
(* Heap objects (object.h).  A freed block keeps its address.              *)
(***************************************************************************)
FREED == [type |-> "freed", isMarked |-> FALSE]

IsLive(h, ref) == ref \in 1..Len(h) /\ h[ref].type # "freed"

isObjType(h, value, type) == IS_OBJ(value) /\ h[AS_OBJ(value)].type = type

\* sizeof the object structs and of the array elements, LP64
SizeOf(type) ==
    CASE type = "string" -> 40
      [] type = "function" -> 72
      [] type = "native" -> 24
      [] type = "closure" -> 40
      [] type = "upvalue" -> 40
      [] type = "boundMethod" -> 32
      [] type = "boundNative" -> 32
      [] type = "class" -> 40
      [] type = "instance" -> 40
      [] type = "list" -> 32
      [] type = "dict" -> 32
      [] type = "Entry" -> 16
      [] type = "Value" -> 8
      [] type = "pointer" -> 8
      [] type = "int" -> 4
      [] type = "char" -> 1

\* memory.h is not part of the sources; the growth rule of the book's macro
GROW_CAPACITY(capacity) == IF capacity < 8 THEN 8 ELSE capacity * 2

(***************************************************************************)
(* Hashing.  uint32_t hashes are kept to their low 16 bits: FNV-1a's low   *)
(* bits depend on the low bits alone, and a table index is                 *)
(* hash & (capacity - 1) with capacity a power of two far below 2^16.      *)
(***************************************************************************)
HashWidth == 2 ^ 16

\* hash ^= (uint8_t)key[i]: the byte meets the low eight bits of the hash
BitXor(hash, byte) ==
    LET bit(x, i) == (x \div (2 ^ i)) % 2
        xor(i) == ((bit(hash, i) + bit(byte, i)) % 2) * (2 ^ i)
    IN  hash - (hash % 256)
        + xor(0) + xor(1) + xor(2) + xor(3) + xor(4) + xor(5) + xor(6) + xor(7)

RECURSIVE hashFrom(_, _, _)
hashFrom(hash, key, i) ==
    IF i > Len(key) THEN hash
    ELSE hashFrom((BitXor(hash, key[i]) * 403) % HashWidth, key, i + 1)

\* the offset basis 2166136261 and the prime 16777619, reduced to the kept width
hashString(key) == hashFrom(40389, key, 1)

\* the types hashValue has no case for: it signals the fatal error and returns 0
Unhashable(h, value) == IS_OBJ(value) /\ h[AS_OBJ(value)].type # "string"

hashValue(h, value) ==
    IF IS_NIL(value) \/ IS_EMPTY(value) THEN 0
    ELSE IF IS_BOOL(value) THEN (IF AS_BOOL(value) THEN 1 ELSE 0)
    ELSE IF IS_NUMBER(value) THEN AS_NUMBER(value) % HashWidth
    ELSE IF h[AS_OBJ(value)].type = "string" THEN h[AS_OBJ(value)].hash
    ELSE 0

(***************************************************************************)
(* The hash table (table.c).  A table is [count, capacity, entries], an    *)
(* entry [key, value].  findEntry returns the C index of the entry, or -1  *)
(* when the probe loop has walked the whole array without meeting a truly  *)
(* empty slot or the key (the C loop then never returns).                  *)
(***************************************************************************)
initTable == [count |-> 0, capacity |-> 0, entries |-> <<>>]

RECURSIVE probe(_, _, _, _, _, _)
probe(entries, capacity, key, index, tombstone, steps) ==
    LET entry == entries[index + 1]
        next == (index + 1) % capacity
    IN  IF steps > capacity THEN -1
        ELSE IF IS_EMPTY(entry.key)
        THEN IF IS_NIL(entry.value)
             THEN (IF tombstone # -1 THEN tombstone ELSE index)
             ELSE probe(entries, capacity, key, next,
                        IF tombstone = -1 THEN index ELSE tombstone, steps + 1)
        ELSE IF valuesEqual(entry.key, key) THEN index
        ELSE probe(entries, capacity, key, next, tombstone, steps + 1)

findEntry(h, entries, capacity, key) ==
    probe(entries, capacity, key, hashValue(h, key) % capacity, -1, 1)

tableGet(h, t, key) ==
    IF t.count = 0 THEN [found |-> FALSE, value |-> NIL_VAL]
    ELSE With(t.entries[findEntry(h, t.entries, t.capacity, key) + 1], LAMBDA entry :
             IF IS_EMPTY(entry.key) THEN [found |-> FALSE, value |-> NIL_VAL]
             ELSE [found |-> TRUE, value |-> entry.value])

\* the loop of adjustCapacity over the old entries that hold a key, in order
RECURSIVE rehash(_, _, _, _, _)
rehash(h, old, entries, capacity, i) ==
    IF i > Len(old) THEN [count |-> Len(old), capacity |-> capacity, entries |-> entries]
    ELSE With(findEntry(h, entries, capacity, old[i].key), LAMBDA dest :
             IF dest < 0 THEN [count |-> -1, capacity |-> capacity, entries |-> entries]
             ELSE rehash(h, old, [entries EXCEPT ![dest + 1] = old[i]], capacity, i + 1))

adjustCapacity(h, t, capacity) ==
    rehash(h, SelectSeq(t.entries, LAMBDA entry : ~IS_EMPTY(entry.key)),
           [i \in 1..capacity |-> [key |-> EMPTY_VAL, value |-> NIL_VAL]], capacity, 1)

\* a table that grows only when every slot is counted
tableMustGrowWhenFull(t) == t.count + 1 > t.capacity

\* count + 1 > capacity * TABLE_MAX_LOAD, with TABLE_MAX_LOAD = 0.75
tableMustGrow(t) == 4 * (t.count + 1) > 3 * t.capacity

tableSet(h, t, key, value) ==
    With(IF tableMustGrow(t) THEN adjustCapacity(h, t, GROW_CAPACITY(t.capacity)) ELSE t,
         LAMBDA t1 :
    With(findEntry(h, t1.entries, t1.capacity, key), LAMBDA at :
    With(t1.entries[at + 1], LAMBDA entry :
        [table |-> [t1 EXCEPT !.count = IF IS_EMPTY(entry.key) /\ IS_NIL(entry.value)
                                        THEN @ + 1 ELSE @,
                              !.entries[at + 1] = [key |-> key, value |-> value]],
         isNewKey |-> IS_EMPTY(entry.key)])))

tableDelete(h, t, key) ==
    IF t.count = 0 THEN [table |-> t, found |-> FALSE]
    ELSE With(findEntry(h, t.entries, t.capacity, key), LAMBDA at :
             IF IS_EMPTY(t.entries[at + 1].key) THEN [table |-> t, found |-> FALSE]
             ELSE [table |-> [t EXCEPT !.entries[at + 1] =
                                           [key |-> EMPTY_VAL, value |-> BOOL_VAL(TRUE)]],
                   found |-> TRUE])

RECURSIVE findStringFrom(_, _, _, _, _, _)
findStringFrom(h, t, chars, hash, index, steps) ==
    LET entry == t.entries[index + 1]
        next == (index + 1) % t.capacity
    IN  IF steps > t.capacity THEN -1
        ELSE IF IS_EMPTY(entry.key)
        THEN IF IS_NIL(entry.value) THEN NULL
             ELSE findStringFrom(h, t, chars, hash, next, steps + 1)
        ELSE IF /\ Len(h[AS_OBJ(entry.key)].chars) = Len(chars)
                /\ h[AS_OBJ(entry.key)].hash = hash
                /\ h[AS_OBJ(entry.key)].chars = chars
        THEN AS_OBJ(entry.key)
        ELSE findStringFrom(h, t, chars, hash, next, steps + 1)

\* a lookup that finds no string, whatever the table holds
tableFindStringNever(h, t, chars, hash) == NULL

tableFindString(h, t, chars, hash) ==
    IF t.count = 0 THEN NULL
    ELSE findStringFrom(h, t, chars, hash, hash % t.capacity, 1)

\* tableRemoveWhite that deletes nothing.
tableRemoveWhiteNothing(h, t, marked) == t

\* every entry whose key is an unmarked object is deleted: tableDelete finds the
\* entry by its key and leaves a tombstone there
tableRemoveWhite(h, t, marked) ==
    [t EXCEPT !.entries =
        [i \in 1..t.capacity |->
            IF ~IS_EMPTY(@[i].key) /\ IS_OBJ(@[i].key) /\ AS_OBJ(@[i].key) \notin marked
            THEN [key |-> EMPTY_VAL, value |-> BOOL_VAL(TRUE)]
            ELSE @[i]]]

(***************************************************************************)
(* Errors and the value stack (vm_utils.c).  Cells of the stack array that *)
(* were written keep their contents when stackTop moves below them; a cell *)
(* outside the written part of the array holds an indeterminate pattern.   *)
(***************************************************************************)
FRAMES_MAX == 64

UINT8_COUNT == 256

STACK_MAX == FRAMES_MAX * UINT8_COUNT

GARBAGE == [t |-> "garbage", v |-> 0]

\* vfprintf(stderr, format, args) for the formats whose arguments the model
\* keeps: each %d becomes the decimal digits of the next argument
vfprintf(format, args) ==
    CASE format = "Expected %d arguments but got %d." ->
           "Expected " \o ToString(args[1]) \o " arguments but got "
                       \o ToString(args[2]) \o "."
      [] format = "Expected 0 arguments but got %d." ->
           "Expected 0 arguments but got " \o ToString(args[1]) \o "."
      [] OTHER -> format

resetStack(m) == [m EXCEPT !.stackTop = 0, !.frameCount = 0, !.openUpvalues = NULL]

runtimeError(m, message) == resetStack([m EXCEPT !.stderr = Append(@, message)])

fatalError(m, message) == [runtimeError(m, message) EXCEPT !.kill = TRUE]

Slot(m, i) == IF i \in 0..(Len(m.stack) - 1) THEN m.stack[i + 1] ELSE GARBAGE

\* *slot = value for a slot of the stack array; a slot below the array is not one
SetSlot(m, i, value) ==
    IF i < 0 THEN [m EXCEPT !.ub = TRUE]
    ELSE [m EXCEPT !.stack = [j \in 1..(IF i < Len(@) THEN Len(@) ELSE i + 1) |->
                                 IF j = i + 1 THEN value
                                 ELSE IF j <= Len(@) THEN @[j] ELSE GARBAGE]]

pushFits(m) == m.stackTop < STACK_MAX

push(m, value) ==
    IF ~pushFits(m) THEN runtimeError(m, "Stack overflow.")
    ELSE [SetSlot(m, m.stackTop, value) EXCEPT !.stackTop = @ + 1]

\* the PUSH macro of vm_utils.c, object.c and chunk.c
PUSH(m, value) ==
    IF pushFits(m) THEN [SetSlot(m, m.stackTop, value) EXCEPT !.stackTop = @ + 1]
    ELSE fatalError(runtimeError(m, "Stack overflow."), "Cannot push value.")

pop(m) == [m EXCEPT !.stackTop = @ - 1]

peek(m, distance) == Slot(m, m.stackTop - 1 - distance)

(***************************************************************************)
(* The collector (memory.c).  DEBUG_STRESS_GC is a build flag: m.stressGC. *)
(* Marking sets isMarked and pushes the object on the gray stack, tracing  *)
(* pops and blackens until the stack is empty: the objects marked at the   *)
(* end are the roots and whatever blackenObject reaches from an object it  *)
(* has marked.  markObject passes over an object whose isMarked is set     *)
(* already: it is kept by the sweep and never blackened.  The objects      *)
(* marked are kept as a set of addresses; the sweep clears isMarked on     *)
(* every object it leaves.                                                 *)
(***************************************************************************)
\* markValue: the object a value refers to, if it refers to one
markValue(values) == {AS_OBJ(value) : value \in {v \in values : IS_OBJ(v)}}

\* markArray
markArray(values) == markValue({values[i] : i \in 1..Len(values)})

\* markTable: the key and the value of every entry
markTable(t) ==
    markValue({t.entries[i].key : i \in 1..t.capacity}
              \cup {t.entries[i].value : i \in 1..t.capacity})

\* what blackenObject marks for one object; there is no case for a dict
blackenObject(o) ==
    CASE o.type = "boundMethod" -> markValue({o.receiver}) \cup {o.method}
      [] o.type = "boundNative" -> markValue({o.receiver})
      [] o.type = "class" -> {o.name} \cup markTable(o.methods)
      [] o.type = "closure" -> {o.function} \cup {o.upvalues[i] : i \in 1..Len(o.upvalues)}
      [] o.type = "function" -> {o.name} \cup markArray(o.constants)
      [] o.type = "instance" -> {o.klass} \cup markTable(o.fields)
      [] o.type = "list" -> markArray(o.values)
      [] o.type = "upvalue" -> markValue({o.closed})
      [] OTHER -> {}

\* the open upvalues, following next from the head of the list
RECURSIVE openUpvalueList(_, _)
openUpvalueList(h, upvalue) ==
    IF upvalue = NULL THEN <<>>
    ELSE IF ~IsLive(h, upvalue) THEN <<upvalue>>
    ELSE <<upvalue>> \o openUpvalueList(h, h[upvalue].next)

markBuiltins(m) ==
    markTable(m.builtins.stringMembers) \cup markTable(m.builtins.listMembers)
        \cup markTable(m.builtins.dictMembers) \cup markTable(m.builtins.optionMembers)

\* the chain of compilers from current outwards (chunk.c)
markCompilerRoots(m) == {m.current[i].function : i \in 1..Len(m.current)}

markRoots(m) ==
    markArray(SubSeq(m.stack, 1, m.stackTop))
        \cup {m.frames[i].closure : i \in 1..m.frameCount}
        \cup {openUpvalueList(m.heap, m.openUpvalues)[i] :
                 i \in 1..Len(openUpvalueList(m.heap, m.openUpvalues))}
        \cup markTable(m.globals) \cup markBuiltins(m)
        \cup markValue({m.reserve}) \cup markCompilerRoots(m) \cup {m.initString}

\* markObject ignores NULL; marking through a pointer to no live object is undefined
RECURSIVE traceReferences(_, _)
traceReferences(h, marked) ==
    With((marked \cup UNION {blackenObject(h[object]) :
                                 object \in {o \in marked : IsLive(h, o) /\ ~h[o].isMarked}})
             \ {NULL},
         LAMBDA more : IF more = marked THEN marked ELSE traceReferences(h, more))

\* the bytes freeObject returns for an object: its arrays and the struct
ObjectBytes(o) ==
    SizeOf(o.type) +
    CASE o.type = "string" -> SizeOf("char") * (Len(o.chars) + 1)
      [] o.type = "closure" -> SizeOf("pointer") * Len(o.upvalues)
      [] o.type = "class" -> SizeOf("Entry") * o.methods.capacity
      [] o.type = "instance" -> SizeOf("Entry") * o.fields.capacity
      [] o.type = "dict" -> SizeOf("Entry") * o.values.capacity
      [] o.type = "list" -> SizeOf("Value") * o.capacity
      [] o.type = "function" ->
             (SizeOf("char") + SizeOf("int")) * o.codeCapacity
             + SizeOf("Value") * o.constantsCapacity
      [] OTHER -> 0

\* the objects that isMarked tells as marked before a collection has begun
Premarked(h) == {object \in 1..Len(h) : IsLive(h, object) /\ h[object].isMarked}

\* sweep that stops at the first object it frees.
sweepOne(m, marked) ==
    LET unreached == {object \in 1..Len(m.heap) : IsLive(m.heap, object)} \ marked
        first == {object \in unreached : \A other \in unreached : object <= other}
    IN  [m EXCEPT !.heap = [object \in 1..Len(@) |->
                               IF object \in first THEN FREED
                               ELSE IF IsLive(@, object) THEN [@[object] EXCEPT !.isMarked = FALSE]
                               ELSE @[object]],
                  !.objects = SelectSeq(@, LAMBDA object : object \notin first),
                  !.bytesAllocated =
                      @ - BagCardinality([object \in first |-> ObjectBytes(m.heap[object])])]

\* sweep unlinks and frees (freeObject) every object of the list that is not
\* marked and clears isMarked on the others
sweep(m, marked) ==
    LET unreached == {object \in 1..Len(m.heap) : IsLive(m.heap, object)} \ marked
    IN  [m EXCEPT !.heap = [object \in 1..Len(@) |->
                               IF object \in unreached THEN FREED
                               ELSE IF IsLive(@, object) THEN [@[object] EXCEPT !.isMarked = FALSE]
                               ELSE @[object]],
                  !.objects = SelectSeq(@, LAMBDA object : object \in marked),
                  !.bytesAllocated =
                      @ - BagCardinality([object \in unreached |-> ObjectBytes(m.heap[object])])]

GC_HEAP_GROW_FACTOR == 2

collectGarbage(m) ==
    With(traceReferences(m.heap, markRoots(m) \ {NULL}), LAMBDA marked :
        IF \E object \in marked : ~IsLive(m.heap, object)
        THEN [m EXCEPT !.ub = TRUE]
        ELSE With(sweep([m EXCEPT !.strings =
                                      tableRemoveWhite(m.heap, @, marked \cup Premarked(m.heap))],
                        marked \cup Premarked(m.heap)),
                  LAMBDA m1 : [m1 EXCEPT !.nextGC = m1.bytesAllocated * GC_HEAP_GROW_FACTOR,
                                         !.collections = @ + 1]))

reallocate(m, oldSize, newSize) ==
    IF m.ub THEN m
    ELSE IF newSize > oldSize
            /\ (m.stressGC \/ m.bytesAllocated + newSize - oldSize > m.nextGC)
    THEN collectGarbage([m EXCEPT !.bytesAllocated = @ + newSize - oldSize])
    ELSE [m EXCEPT !.bytesAllocated = @ + newSize - oldSize]

(***************************************************************************)
(* Object construction (object.c).  An allocating operator returns the     *)
(* machine and the address of the new object as [m, ref].  Nothing more is *)
(* done by an operator once ub is set.                                     *)
(***************************************************************************)
allocateObject(m, object) ==
    With(reallocate(m, 0, SizeOf(object.type)), LAMBDA m1 :
        IF m1.ub THEN [m |-> m1, ref |-> NULL]
        ELSE [m |-> [m1 EXCEPT !.heap = Append(@, object),
                               !.objects = <<Len(m1.heap) + 1>> \o @],
              ref |-> Len(m1.heap) + 1])

\* where a table lives: <<NULL, field>> for a table of the VM (globals, strings,
\* a member table of the built-ins), <<address, field>> for one of a heap object
TableAt(m, where) ==
    IF where[1] # NULL THEN m.heap[where[1]][where[2]]
    ELSE IF where[2] \in {"globals", "strings"} THEN m[where[2]]
    ELSE m.builtins[where[2]]

WithTable(m, where, t) ==
    IF where[1] # NULL THEN [m EXCEPT !.heap[where[1]][where[2]] = t]
    ELSE IF where[2] \in {"globals", "strings"} THEN [m EXCEPT ![where[2]] = t]
    ELSE [m EXCEPT !.builtins[where[2]] = t]

\* freeTable: the entry array of the table's capacity goes, the table is reset
freeTable(m, where) ==
    WithTable([m EXCEPT !.bytesAllocated = @ - SizeOf("Entry") * TableAt(m, where).capacity],
              where, initTable)

\* freeObjects: freeObject on every object of the list
freeObjects(m) ==
    [m EXCEPT !.heap = [object \in 1..Len(@) |-> FREED],
              !.objects = <<>>,
              !.bytesAllocated =
                  @ - BagCardinality([i \in 1..Len(m.objects) |->
                                         ObjectBytes(m.heap[m.objects[i]])])]

freeBuiltins(m) ==
    freeTable(freeTable(freeTable(freeTable(m, <<NULL, "stringMembers">>),
                                  <<NULL, "listMembers">>),
                        <<NULL, "dictMembers">>),
              <<NULL, "optionMembers">>)

freeVM(m) ==
    freeObjects(freeBuiltins(freeTable(freeTable(m, <<NULL, "globals">>), <<NULL, "strings">>)))

\* the object a table or array belongs to has been freed
Dangling(m, ref) == ref # NULL /\ ~IsLive(m.heap, ref)

\* tableSet on a table of the machine: adjustCapacity allocates the new entry
\* array first (a collection may run there), findEntry then hashes the key
vmTableSet(m, where, key, value) ==
    With(IF ~m.ub /\ tableMustGrow(TableAt(m, where))
         THEN reallocate(m, 0, SizeOf("Entry") * GROW_CAPACITY(TableAt(m, where).capacity))
         ELSE m, LAMBDA m1 :
        IF m1.ub \/ Dangling(m1, where[1])
        THEN [m |-> [m1 EXCEPT !.ub = TRUE], isNewKey |-> FALSE]
        ELSE With(tableSet(m1.heap, TableAt(m1, where), key, value), LAMBDA set :
                 [m |-> WithTable(IF Unhashable(m1.heap, key)
                                  THEN fatalError(m1, "Unhashable type.") ELSE m1,
                                  where, set.table),
                  isNewKey |-> set.isNewKey]))

vmTableGet(m, where, key) ==
    With(tableGet(m.heap, TableAt(m, where), key), LAMBDA get :
        [m |-> IF TableAt(m, where).count # 0 /\ Unhashable(m.heap, key)
               THEN fatalError(m, "Unhashable type.") ELSE m,
         found |-> get.found, value |-> get.value])

vmTableDelete(m, where, key) ==
    WithTable(IF TableAt(m, where).count # 0 /\ Unhashable(m.heap, key)
              THEN fatalError(m, "Unhashable type.") ELSE m,
              where, tableDelete(m.heap, TableAt(m, where), key).table)

allocateString(m, chars, hash) ==
    With(allocateObject(m, [type |-> "string", isMarked |-> FALSE,
                            chars |-> chars, hash |-> hash]), LAMBDA string :
        IF string.m.ub THEN string
        ELSE [m |-> pop(vmTableSet(PUSH(string.m, OBJ_VAL(string.ref)), <<NULL, "strings">>,
                                   OBJ_VAL(string.ref), NIL_VAL).m),
              ref |-> string.ref])

takeString(m, chars) ==
    With(hashString(chars), LAMBDA hash :
    With(tableFindString(m.heap, m.strings, chars, hash), LAMBDA interned :
        IF interned # NULL
        THEN [m |-> reallocate(m, SizeOf("char") * (Len(chars) + 1), 0), ref |-> interned]
        ELSE allocateString(m, chars, hash)))

copyString(m, chars) ==
    With(hashString(chars), LAMBDA hash :
    With(tableFindString(m.heap, m.strings, chars, hash), LAMBDA interned :
        IF interned # NULL THEN [m |-> m, ref |-> interned]
        ELSE allocateString(reallocate(m, 0, SizeOf("char") * (Len(chars) + 1)),
                            chars, hash)))

\* writeValueArray on the array of a heap object (a list's values, a function's
\* constants); capacity is the field that holds the array's capacity
writeValueArray(m, ref, array, capacity, value) ==
    IF m.ub \/ Dangling(m, ref) THEN [m EXCEPT !.ub = TRUE]
    ELSE With(m.heap[ref], LAMBDA o :
         With(IF o[capacity] < Len(o[array]) + 1
              THEN reallocate([m EXCEPT !.heap[ref][capacity] = GROW_CAPACITY(@)],
                              SizeOf("Value") * o[capacity],
                              SizeOf("Value") * GROW_CAPACITY(o[capacity]))
              ELSE m, LAMBDA m1 :
             IF m1.ub \/ Dangling(m1, ref) THEN [m1 EXCEPT !.ub = TRUE]
             ELSE [m1 EXCEPT !.heap[ref][array] = Append(@, value)]))

newObject(type) == [type |-> type, isMarked |-> FALSE]

newBoundMethod(m, receiver, method) ==
    allocateObject(m, newObject("boundMethod") @@ [receiver |-> receiver, method |-> method])

newBoundNative(m, receiver, method) ==
    allocateObject(m, newObject("boundNative") @@ [receiver |-> receiver, method |-> method])

newClass(m, name) ==
    allocateObject(m, newObject("class") @@ [name |-> name, methods |-> initTable])

newClosure(m, function) ==
    With(m.heap[function].upvalueCount, LAMBDA upvalueCount :
    With(reallocate(m, 0, SizeOf("pointer") * upvalueCount), LAMBDA m1 :
        IF m1.ub \/ Dangling(m1, function) THEN [m |-> [m1 EXCEPT !.ub = TRUE], ref |-> NULL]
        ELSE allocateObject(m1, newObject("closure") @@
                 [function |-> function, upvalues |-> [i \in 1..upvalueCount |-> NULL]])))

newDict(m) == allocateObject(m, newObject("dict") @@ [values |-> initTable])

newFunction(m) ==
    allocateObject(m, newObject("function") @@
        [arity |-> 0, upvalueCount |-> 0, name |-> NULL, code |-> <<>>, count |-> 0,
         codeCapacity |-> 0, constants |-> <<>>, constantsCapacity |-> 0])

newInstance(m, klass) ==
    allocateObject(m, newObject("instance") @@ [klass |-> klass, fields |-> initTable])

newList(m) == allocateObject(m, newObject("list") @@ [values |-> <<>>, capacity |-> 0])

newNative(m, function) == allocateObject(m, newObject("native") @@ [function |-> function])

\* newUpvalue that copies the value of the slot into the upvalue at once
newUpvalueClosed(m, slot) ==
    allocateObject(m, newObject("upvalue") @@
        [closed |-> Slot(m, slot), location |-> -1, next |-> NULL])

\* location is the index of the stack slot, -1 once it points at closed
newUpvalue(m, slot) ==
    allocateObject(m, newObject("upvalue") @@
        [closed |-> NIL_VAL, location |-> slot, next |-> NULL])

(***************************************************************************)
(* The built-ins (builtins.c).  A native is named by its C function; it    *)
(* receives args as the index of the first argument's stack slot and       *)
(* returns [m, ok].  Its PUSH gives up with false when push fails.         *)
(***************************************************************************)
CHECK_ARGCOUNT(m, argCount, expected) ==
    IF argCount # expected THEN runtimeError(m, "%d args expected but got %d.") ELSE m

\* CHECK_ARGCOUNT(expected); PUSH(value); return true;
nativeResult(m, argCount, expected, value) ==
    [m |-> IF argCount # expected THEN CHECK_ARGCOUNT(m, argCount, expected)
           ELSE push(m, value),
     ok |-> argCount = expected /\ pushFits(m)]

clockNative(m, argCount, args) == nativeResult(m, argCount, 0, NUMBER_VAL(m.ticks))

\* newModule and importFile are not part of the sources: no module file is found
importNative(m, argCount, args) ==
    IF argCount # 1 THEN [m |-> CHECK_ARGCOUNT(m, argCount, 1), ok |-> FALSE]
    ELSE IF ~isObjType(m.heap, Slot(m, args), "string")
    THEN [m |-> runtimeError(m, "Expected value of type %s."), ok |-> FALSE]
    ELSE [m |-> runtimeError(m, "Above error while importing module from %s"), ok |-> FALSE]

stringLengthNative(m, argCount, args) ==
    nativeResult(m, argCount, 0,
                 NUMBER_VAL(IF argCount = 0 THEN Len(m.heap[AS_OBJ(Slot(m, args - 1))].chars) ELSE 0))

\* listAppendNative that returns its argument and stores nothing.
listAppendNativeLost(m, argCount, args) ==
    IF argCount # 1 THEN [m |-> CHECK_ARGCOUNT(m, argCount, 1), ok |-> FALSE]
    ELSE [m |-> push(m, Slot(m, args)), ok |-> pushFits(m)]

listAppendNative(m, argCount, args) ==
    IF argCount # 1 THEN [m |-> CHECK_ARGCOUNT(m, argCount, 1), ok |-> FALSE]
    ELSE With(writeValueArray(m, AS_OBJ(Slot(m, args - 1)), "values", "capacity",
                              Slot(m, args)), LAMBDA m1 :
             IF m1.ub THEN [m |-> m1, ok |-> FALSE]
             ELSE [m |-> push(m1, Slot(m1, args)), ok |-> pushFits(m1)])

listLengthNative(m, argCount, args) ==
    nativeResult(m, argCount, 0,
                 NUMBER_VAL(IF argCount = 0 THEN Len(m.heap[AS_OBJ(Slot(m, args - 1))].values) ELSE 0))

callNative(m, function, argCount, args) ==
    CASE function = "clockNative" -> clockNative(m, argCount, args)
      [] function = "importNative" -> importNative(m, argCount, args)
      [] function = "stringLengthNative" -> stringLengthNative(m, argCount, args)
      [] function = "listAppendNative" -> listAppendNative(m, argCount, args)
      [] function = "listLengthNative" -> listLengthNative(m, argCount, args)

defineNative(m, name, function) ==
    With(copyString(m, name), LAMBDA s :
    With(copyString(s.m, name), LAMBDA again :
    With(newNative(PUSH(again.m, OBJ_VAL(again.ref)), function), LAMBDA native :
    With(PUSH(native.m, OBJ_VAL(native.ref)), LAMBDA m2 :
        IF native.m.ub THEN native.m
        ELSE pop(pop(vmTableSet(m2, <<NULL, "globals">>, Slot(m2, 0), Slot(m2, 1)).m))))))

addBuiltin(m, members, name, native) ==
    With(copyString(m, name), LAMBDA key :
    With(newNative(IF pushFits(key.m) THEN push(key.m, OBJ_VAL(key.ref)) ELSE key.m, native),
         LAMBDA val :
        IF val.m.ub THEN val.m
        ELSE pop(pop(vmTableSet(IF pushFits(val.m) THEN push(val.m, OBJ_VAL(val.ref))
                                ELSE val.m,
                                <<NULL, members>>, OBJ_VAL(key.ref), OBJ_VAL(val.ref)).m))))

\* the names the C code spells out, as bytes
Chars(name) ==
    CASE name = "init" -> <<105, 110, 105, 116>>
      [] name = "clock" -> <<99, 108, 111, 99, 107>>
      [] name = "import" -> <<105, 109, 112, 111, 114, 116>>
      [] name = "length" -> <<108, 101, 110, 103, 116, 104>>
      [] name = "append" -> <<97, 112, 112, 101, 110, 100>>
      [] name = "unwrap" -> <<117, 110, 119, 114, 97, 112>>
      [] name = "this" -> <<116, 104, 105, 115>>
      [] name = "super" -> <<115, 117, 112, 101, 114>>
      [] name = "anonymous" -> <<97, 110, 111, 110, 121, 109, 111, 117, 115>>
      [] name = "dict" -> <<100, 105, 99, 116>>
      [] name = "<script>" -> <<60, 115, 99, 114, 105, 112, 116, 62>>
      [] name = "<func " -> <<60, 102, 117, 110, 99, 32>>
      [] name = ">" -> <<62>>
      [] name = "<native fn>" -> <<60, 110, 97, 116, 105, 118, 101, 32, 102, 110, 62>>
      [] name = " instance" -> <<32, 105, 110, 115, 116, 97, 110, 99, 101>>
      [] name = "[" -> <<91>>
      [] name = "]" -> <<93>>
      [] name = ", " -> <<44, 32>>
      [] name = "dict {" -> <<100, 105, 99, 116, 32, 123>>
      [] name = " => " -> <<32, 61, 62, 32>>
      [] name = "}" -> <<125>>
      [] name = "upvalue" -> <<117, 112, 118, 97, 108, 117, 101>>
      [] name = "true" -> <<116, 114, 117, 101>>
      [] name = "false" -> <<102, 97, 108, 115, 101>>
      [] name = "<empty value>" -> <<60, 101, 109, 112, 116, 121, 32, 118, 97, 108, 117, 101, 62>>
      [] name = "xy" -> <<120, 121>>
      [] name = "-nan" -> <<45, 110, 97, 110>>
      [] name = "x" -> <<120>>
      [] name = "2" -> <<50>>
      [] name = "5" -> <<53>>
      [] name = "\"ab\"" -> <<34, 97, 98, 34>>
      [] name = "9" -> <<57>>
      [] name = "3" -> <<51>>
      [] name = "-1" -> <<45, 49>>
      [] name = "b" -> <<98>>
      [] name = "1" -> <<49>>
      [] name = "make" -> <<109, 97, 107, 101>>
      [] name = "n" -> <<110>>
      [] name = "inc" -> <<105, 110, 99>>
      [] name = "c" -> <<99>>
      [] name = "4" -> <<52>>
      [] name = "i" -> <<105>>
      [] name = "a" -> <<97>>
      [] name = "A" -> <<65>>
      [] name = "v" -> <<118>>
      [] name = "get" -> <<103, 101, 116>>
      [] name = "B" -> <<66>>
      [] name = "7" -> <<55>>
      [] name = "m" -> <<109>>
      [] name = "g" -> <<103>>
      [] name = "K" -> <<75>>
      [] name = "f" -> <<102>>
      [] name = "k" -> <<107>>
      [] name = "l" -> <<108>>
      [] name = "[5, 2, 7]" -> <<91, 53, 44, 32, 50, 44, 32, 55, 93>>
      [] name = "d" -> <<100>>
      [] name = "\"a\"" -> <<34, 97, 34>>
      [] name = "\"b\"" -> <<34, 98, 34>>
      [] name = "s" -> <<115>>
      [] name = "\"c\"" -> <<34, 99, 34>>
      [] name = "\"d\"" -> <<34, 100, 34>>
      [] name = "e" -> <<101>>
      [] name = "ab" -> <<97, 98>>
      [] name = "outer" -> <<111, 117, 116, 101, 114>>
      [] name = "fb" -> <<102, 98>>
      [] name = "fa" -> <<102, 97>>
      [] name = "fab" -> <<102, 97, 98>>
      [] name = "z" -> <<122>>
      [] name = "\"abc\"" -> <<34, 97, 98, 99, 34>>
      [] name = "h" -> <<104>>
      [] name = "\"s\"" -> <<34, 115, 34>>
      [] name = "\"x\"" -> <<34, 120, 34>>
      [] name = "\"y\"" -> <<34, 121, 34>>
      [] name = "\"yx\"" -> <<34, 121, 120, 34>>
      [] name = "6" -> <<54>>
      [] name = "y" -> <<121>>
      [] name = "\"\"" -> <<34, 34>>
      [] name = "\"hi\"" -> <<34, 104, 105, 34>>
      [] name = "P" -> <<80>>
      [] name = "p" -> <<112>>
      [] name = "R" -> <<82>>
      [] name = "Q" -> <<81>>
      [] name = "P instance" -> <<80, 32, 105, 110, 115, 116, 97, 110, 99, 101>>
      [] name = "R instance" -> <<82, 32, 105, 110, 115, 116, 97, 110, 99, 101>>
      [] name = "Q instance" -> <<81, 32, 105, 110, 115, 116, 97, 110, 99, 101>>
      [] name = "xs" -> <<120, 115>>
      [] name = "[1, 2, 3, 4]" -> <<91, 49, 44, 32, 50, 44, 32, 51, 44, 32, 52, 93>>
      [] name = "0" -> <<48>>
      [] name = "8" -> <<56>>
      [] name = "di" -> <<100, 105>>
      [] name = "dicts" -> <<100, 105, 99, 116, 115>>
      [] name = "set" -> <<115, 101, 116>>

createBuiltins(m) ==
    addBuiltin(
        addBuiltin(
            addBuiltin(
                addBuiltin(
                    defineNative(
                        defineNative(m, Chars("clock"), "clockNative"),
                        Chars("import"), "importNative"),
                    "stringMembers", Chars("length"), "stringLengthNative"),
                "listMembers", Chars("append"), "listAppendNative"),
            "listMembers", Chars("length"), "listLengthNative"),
        "optionMembers", Chars("unwrap"), "optionUnwrapNative")

(***************************************************************************)
(* initVM.  The VM is an automatic variable of main and initVM leaves      *)
(* reserve unset, so reserve starts as whatever the memory held; stressGC  *)
(* is the DEBUG_STRESS_GC build flag and ticks the reading of the clock.   *)
(***************************************************************************)
initVM(stressGC, reserve, ticks) ==
    With(copyString(
             [frames |-> <<>>, frameCount |-> 0, frame |-> 0, stack |-> <<>>, stackTop |-> 0,
              globals |-> initTable, strings |-> initTable,
              builtins |-> [stringMembers |-> initTable, listMembers |-> initTable,
                            dictMembers |-> initTable, optionMembers |-> initTable],
              initString |-> NULL, openUpvalues |-> NULL, reserve |-> reserve,
              bytesAllocated |-> 0, nextGC |-> 1024 * 1024, objects |-> <<>>,
              grayStack |-> <<>>, kill |-> FALSE,
              parser |-> [tokens |-> <<>>, next |-> 1, current |-> "", previous |-> "",
                          hadError |-> FALSE, panicMode |-> FALSE, calls |-> <<>>, ret |-> 0],
              current |-> <<>>, currentClass |-> <<>>,
              heap |-> <<>>, stdout |-> <<>>, stderr |-> <<>>, ub |-> FALSE,
              stressGC |-> stressGC, ticks |-> ticks, collections |-> 0],
             Chars("init")), LAMBDA init :
        createBuiltins([init.m EXCEPT !.initString = init.ref]))

\* the machines main can construct: either build, reserve holding a number or
\* the pattern of a pointer to no object, and a reading of the clock
MaxTicks == 0

Machines ==
    {initVM(stressGC, reserve, ticks) :
        stressGC \in BOOLEAN, reserve \in {NUMBER_VAL(0), OBJ_VAL(-1)}, ticks \in 0..MaxTicks}

(***************************************************************************)
(* The table driven directly: tableSet and tableDelete applied to one      *)
(* table, in any order, with keys of every hashable kind.  expect records, *)
(* per key, the value of the last tableSet not followed by a tableDelete.  *)
(***************************************************************************)
MaxNumberKey == 8

MaxPrefill == 4

ABSENT == [t |-> "absent", v |-> 0]

\* the keys the actions set and delete: true, two numbers that share a slot
\* (0 and the capacity of the first entry array), and a string
TableKeys == {TRUE_VAL, OBJ_VAL(vm.initString), NUMBER_VAL(0), NUMBER_VAL(MaxNumberKey)}

\* the keys the table holds from the start, set once and never deleted
PrefillKeys == {NUMBER_VAL(n) : n \in 1..MaxPrefill}

TableValues == {NUMBER_VAL(1), NIL_VAL}

RECURSIVE Prefilled(_, _)
Prefilled(h, n) ==
    IF n = 0 THEN initTable ELSE tableSet(h, Prefilled(h, n - 1), NUMBER_VAL(n), NUMBER_VAL(n)).table

InitTable ==
    /\ vm = initVM(FALSE, NUMBER_VAL(0), 0)
    /\ result = "table"
    /\ program = 0
    /\ table = Prefilled(vm.heap, MaxPrefill)
    /\ expect = [k \in TableKeys \cup PrefillKeys |->
                    IF k \in PrefillKeys THEN NUMBER_VAL(AS_NUMBER(k)) ELSE ABSENT]

MaxCapacity == 16

TableSet ==
    \E k \in TableKeys, v \in TableValues :
        /\ tableMustGrow(table) => GROW_CAPACITY(table.capacity) <= MaxCapacity
        /\ table' = tableSet(vm.heap, table, k, v).table
        /\ expect' = [expect EXCEPT ![k] = v]
        /\ UNCHANGED <<vm, result, program>>

TableDelete ==
    \E k \in TableKeys :
        /\ table' = tableDelete(vm.heap, table, k).table
        /\ expect' = [expect EXCEPT ![k] = ABSENT]
        /\ UNCHANGED <<vm, result, program>>

NextTable == TableSet \/ TableDelete

SpecTable == InitTable /\ [][NextTable]_vars

\* C6: a key that was set and not deleted since is found with the value of its
\* last tableSet, whatever was set, deleted or grown in between, and at most
\* one slot of the table holds it.
SetThenGet ==
    \A k \in DOMAIN expect :
        expect[k] # ABSENT =>
            /\ tableGet(vm.heap, table, k) = [found |-> TRUE, value |-> expect[k]]
            /\ Cardinality({i \in 1..table.capacity : table.entries[i].key = k}) <= 1

(***************************************************************************)
(* The scanner.  scanner.c is not part of the sources; a source text is    *)
(* given as the sequence of its lexemes, and scanToken hands them out one  *)
(* by one, typed as the token list of the language documents them.  The    *)
(* token after the last lexeme is the end of file, whose lexeme is empty.  *)
(***************************************************************************)
\* the lexemes of the number literals, "0" first: strtod of the i-th is i - 1
Digits == <<"0", "1", "2", "3", "4", "5", "6", "7", "8", "9">>

strtod(lexeme) == (CHOOSE i \in 1..Len(Digits) : Digits[i] = lexeme) - 1

TokenType(lexeme) ==
    CASE lexeme = "" -> "TOKEN_EOF"
      [] lexeme = "(" -> "TOKEN_LEFT_PAREN"
      [] lexeme = ")" -> "TOKEN_RIGHT_PAREN"
      [] lexeme = "{" -> "TOKEN_LEFT_BRACE"
      [] lexeme = "}" -> "TOKEN_RIGHT_BRACE"
      [] lexeme = "[" -> "TOKEN_LEFT_SQUARE"
      [] lexeme = "]" -> "TOKEN_RIGHT_SQUARE"
      [] lexeme = "," -> "TOKEN_COMMA"
      [] lexeme = "." -> "TOKEN_DOT"
      [] lexeme = "-" -> "TOKEN_MINUS"
      [] lexeme = "+" -> "TOKEN_PLUS"
      [] lexeme = ";" -> "TOKEN_SEMICOLON"
      [] lexeme = "/" -> "TOKEN_SLASH"
      [] lexeme = "*" -> "TOKEN_STAR"
      [] lexeme = "!=" -> "TOKEN_BANG_EQUAL"
      [] lexeme = "=" -> "TOKEN_EQUAL"
      [] lexeme = "==" -> "TOKEN_EQUAL_EQUAL"
      [] lexeme = ">" -> "TOKEN_GREATER"
      [] lexeme = ">=" -> "TOKEN_GREATER_EQUAL"
      [] lexeme = "<" -> "TOKEN_LESS"
      [] lexeme = "<=" -> "TOKEN_LESS_EQUAL"
      [] lexeme = "=>" -> "TOKEN_FAT_ARROW"
      [] lexeme = "and" -> "TOKEN_AND"
      [] lexeme = "class" -> "TOKEN_CLASS"
      [] lexeme = "else" -> "TOKEN_ELSE"
      [] lexeme = "false" -> "TOKEN_FALSE"
      [] lexeme = "for" -> "TOKEN_FOR"
      [] lexeme = "func" -> "TOKEN_FUNC"
      [] lexeme = "if" -> "TOKEN_IF"
      [] lexeme = "in" -> "TOKEN_IN"
      [] lexeme = "nil" -> "TOKEN_NIL"
      [] lexeme = "not" -> "TOKEN_NOT"
      [] lexeme = "or" -> "TOKEN_OR"
      [] lexeme = "print" -> "TOKEN_PRINT"
      [] lexeme = "return" -> "TOKEN_RETURN"
      [] lexeme = "super" -> "TOKEN_SUPER"
      [] lexeme = "this" -> "TOKEN_THIS"
      [] lexeme = "true" -> "TOKEN_TRUE"
      [] lexeme = "var" -> "TOKEN_VAR"
      [] lexeme = "while" -> "TOKEN_WHILE"
      [] OTHER -> IF \E i \in 1..Len(Digits) : Digits[i] = lexeme THEN "TOKEN_NUMBER"
                  ELSE IF Chars(lexeme)[1] = 34 THEN "TOKEN_STRING"
                  ELSE "TOKEN_IDENTIFIER"

initScanner(m, source) == [m EXCEPT !.parser.tokens = source, !.parser.next = 1]

scanToken(m) ==
    IF m.parser.next > Len(m.parser.tokens) THEN "" ELSE m.parser.tokens[m.parser.next]

(***************************************************************************)
(* The parser state and the emitters (chunk.c).  parser, current and       *)
(* currentClass are globals of chunk.c, kept in the machine record:        *)
(* m.current is the chain of compilers with the innermost last, and        *)
(* m.currentClass the chain of class compilers.  A chunk is addressed by   *)
(* the function object that holds it.                                      *)
(***************************************************************************)
errorAt(m, token, message) ==
    IF m.parser.panicMode THEN m
    ELSE [m EXCEPT !.parser.panicMode = TRUE, !.parser.hadError = TRUE,
                   !.stderr = Append(@, message)]

error(m, message) == errorAt(m, m.parser.previous, message)

errorAtCurrent(m, message) == errorAt(m, m.parser.current, message)

\* the scanner reports no error token: every lexeme of a source is well formed
advance(m) ==
    [m EXCEPT !.parser.previous = m.parser.current,
              !.parser.current = scanToken(m),
              !.parser.next = @ + 1]

check(m, type) == TokenType(m.parser.current) = type

consume(m, type, message) == IF check(m, type) THEN advance(m) ELSE errorAtCurrent(m, message)

\* match returns whether it advanced: check tells, and match is the machine after
match(m, type) == IF check(m, type) THEN advance(m) ELSE m

\* memcmp(token->start, keyword, token->length) == 0: the bytes of the token
\* against as many bytes of the keyword and its terminator
softKeyword(token, keyword) ==
    \A i \in 1..Len(Chars(token)) :
        i <= Len(Chars(keyword)) + 1 /\ Chars(token)[i] = (Chars(keyword) \o <<0>>)[i]

\* enum OpCode; an instruction byte is the position of its name, counted from 0
OpCode ==
    <<"OP_CONSTANT", "OP_NIL", "OP_TRUE", "OP_FALSE", "OP_INT", "OP_LIST", "OP_DICT",
      "OP_POP", "OP_GET_LOCAL", "OP_SET_LOCAL", "OP_GET_GLOBAL", "OP_DEFINE_GLOBAL",
      "OP_SET_GLOBAL", "OP_GET_UPVALUE", "OP_SET_UPVALUE", "OP_GET_PROPERTY",
      "OP_SET_PROPERTY", "OP_GET_SUPER", "OP_GET_INDEX", "OP_SET_INDEX",
      "OP_GET_RESERVE", "OP_SET_RESERVE", "OP_EQUAL", "OP_GREATER", "OP_LESS",
      "OP_ADD", "OP_SUBTRACT", "OP_MULTIPLY", "OP_DIVIDE", "OP_NOT", "OP_NEGATE",
      "OP_PRINT", "OP_JUMP", "OP_JUMP_IF_FALSE", "OP_NEXT_JUMP", "OP_LOOP", "OP_CALL",
      "OP_INVOKE", "OP_SUPER_INVOKE", "OP_CLOSURE", "OP_CLOSE_UPVALUE", "OP_RETURN",
      "OP_CLASS", "OP_INHERIT", "OP_METHOD">>

Op(name) == (CHOOSE i \in 1..Len(OpCode) : OpCode[i] = name) - 1

\* *pointer.field = value
Store(m, ref, field, value) ==
    IF m.ub \/ Dangling(m, ref) THEN [m EXCEPT !.ub = TRUE]
    ELSE [m EXCEPT !.heap[ref][field] = value]

\* the lines array grows with the code array; the line numbers are not kept
writeChunk(m, chunk, byte) ==
    IF m.ub \/ Dangling(m, chunk) THEN [m EXCEPT !.ub = TRUE]
    ELSE With(m.heap[chunk].codeCapacity, LAMBDA oldCapacity :
         With(IF oldCapacity < m.heap[chunk].count + 1
              THEN reallocate(
                       reallocate([m EXCEPT !.heap[chunk].codeCapacity = GROW_CAPACITY(@)],
                                  SizeOf("char") * oldCapacity,
                                  SizeOf("char") * GROW_CAPACITY(oldCapacity)),
                       SizeOf("int") * oldCapacity, SizeOf("int") * GROW_CAPACITY(oldCapacity))
              ELSE m, LAMBDA m1 :
             IF m1.ub \/ Dangling(m1, chunk) THEN [m1 EXCEPT !.ub = TRUE]
             ELSE [m1 EXCEPT !.heap[chunk].code = Append(@, byte),
                             !.heap[chunk].count = @ + 1]))

\* returns [m, constant]
addConstant(m, chunk, value) ==
    With(pop(writeValueArray(PUSH(m, value), chunk, "constants", "constantsCapacity", value)),
         LAMBDA m1 : [m |-> m1,
                      constant |-> IF m1.ub THEN 0 ELSE Len(m1.heap[chunk].constants) - 1])

currentChunk(m) == m.current[Len(m.current)].function

\* EMIT_BYTE for each byte in turn (emitByte, emitBytes)
RECURSIVE emitBytes(_, _)
emitBytes(m, bytes) ==
    IF bytes = <<>> THEN m
    ELSE emitBytes(writeChunk(m, currentChunk(m), Head(bytes)), Tail(bytes))

UINT16_MAX == 2 ^ 16 - 1

\* the count of the current chunk
Count(m) == IF m.ub THEN 0 ELSE m.heap[currentChunk(m)].count

emitLoop(m, loopStart) ==
    With(emitBytes(m, <<Op("OP_LOOP")>>), LAMBDA m1 :
    With(Count(m1) - loopStart + 2, LAMBDA offset :
        emitBytes(IF offset > UINT16_MAX THEN error(m1, "Loop body too large.") ELSE m1,
                  <<(offset \div 256) % 256, offset % 256>>)))

\* returns [m, offset]
emitJump(m, instruction) ==
    With(emitBytes(m, <<instruction, 255, 255>>), LAMBDA m1 :
        [m |-> m1, offset |-> Count(m1) - 2])

\* emitReturn that ends an initializer like any other function.
emitReturnPlain(m) ==
    emitBytes(m, <<Op("OP_RETURN")>>)

emitReturn(m) ==
    emitBytes(m, IF m.current[Len(m.current)].type = "TYPE_INITIALIZER"
                 THEN <<Op("OP_GET_LOCAL"), 0, Op("OP_RETURN")>>
                 ELSE <<Op("OP_RETURN")>>)

\* returns [m, constant]
makeConstant(m, value) ==
    With(addConstant(m, currentChunk(m), value), LAMBDA added :
        IF added.constant > UINT8_COUNT - 1
        THEN [m |-> error(added.m, "Too many constants in one chunk."), constant |-> 0]
        ELSE added)

\* EMIT_BYTES(op, makeConstant(value))
emitConstant(m, op, value) ==
    With(makeConstant(m, value), LAMBDA made : emitBytes(made.m, <<op, made.constant>>))

patchJump(m, offset) ==
    IF m.ub THEN m
    ELSE With(Count(m) - offset - 2, LAMBDA jump :
             [(IF jump > UINT16_MAX THEN error(m, "Too much code to jump over.") ELSE m)
                 EXCEPT !.heap[currentChunk(m)].code[offset + 1] = (jump \div 256) % 256,
                        !.heap[currentChunk(m)].code[offset + 2] = jump % 256])

(***************************************************************************)
(* Compilers, scopes and variables (chunk.c).  A compiler is [function,    *)
(* type, locals, upvalues, scopeDepth]; localCount is Len(locals), and a   *)
(* compiler is named by its position in m.current.                         *)
(***************************************************************************)
initCompiler(m, type) ==
    With(newFunction(m), LAMBDA function :
    With([function.m EXCEPT !.current = Append(@,
             [function |-> function.ref, type |-> type, upvalues |-> <<>>, scopeDepth |-> 0,
              locals |-> <<[name |-> IF type # "TYPE_FUNCTION" THEN "this" ELSE "",
                            depth |-> 0, isCaptured |-> FALSE]>>])], LAMBDA m1 :
        IF type = "TYPE_SCRIPT" \/ m1.ub THEN m1
        ELSE With(copyString(m1, IF TokenType(m1.parser.previous) = "TOKEN_FUNC"
                                 THEN Chars("anonymous") ELSE Chars(m1.parser.previous)),
                  LAMBDA name : Store(name.m, function.ref, "name", name.ref))))

\* the function is current's before the call: the caller reads it there
endCompiler(m) == [emitReturn(m) EXCEPT !.current = SubSeq(@, 1, Len(@) - 1)]

beginScope(m) == [m EXCEPT !.current[Len(m.current)].scopeDepth = @ + 1]

\* how many locals at the end of the array are deeper than depth
RECURSIVE deeperThan(_, _)
deeperThan(locals, depth) ==
    IF locals = <<>> \/ locals[Len(locals)].depth <= depth THEN 0
    ELSE 1 + deeperThan(SubSeq(locals, 1, Len(locals) - 1), depth)

endScope(m) ==
    With(m.current[Len(m.current)], LAMBDA compiler :
    With(deeperThan(compiler.locals, compiler.scopeDepth - 1), LAMBDA n :
        [emitBytes([m EXCEPT !.current[Len(m.current)].scopeDepth = @ - 1],
                   [k \in 1..n |-> IF compiler.locals[Len(compiler.locals) - k + 1].isCaptured
                                   THEN Op("OP_CLOSE_UPVALUE") ELSE Op("OP_POP")])
            EXCEPT !.current[Len(m.current)].locals = SubSeq(@, 1, Len(@) - n)]))

\* returns [m, constant]
identifierConstant(m, name) ==
    With(copyString(m, Chars(name)), LAMBDA string : makeConstant(string.m, OBJ_VAL(string.ref)))

\* the position of the last local called name, or -1; returns [m, arg]
resolveLocal(m, compiler, name) ==
    With(m.current[compiler].locals, LAMBDA locals :
    With({i \in 1..Len(locals) : locals[i].name = name}, LAMBDA named :
        IF named = {} THEN [m |-> m, arg |-> -1]
        ELSE With(CHOOSE i \in named : \A j \in named : j <= i, LAMBDA i :
                 [m |-> IF locals[i].depth = -1
                        THEN error(m, "Can't read local variable in its own initializer.")
                        ELSE m,
                  arg |-> i - 1])))

\* returns [m, arg]
addUpvalue(m, compiler, index, isLocal) ==
    With(m.current[compiler].upvalues, LAMBDA upvalues :
    With({i \in 1..Len(upvalues) : upvalues[i] = [index |-> index, isLocal |-> isLocal]},
         LAMBDA same :
        IF same # {} THEN [m |-> m, arg |-> (CHOOSE i \in same : \A j \in same : i <= j) - 1]
        ELSE IF Len(upvalues) = UINT8_COUNT
        THEN [m |-> error(m, "Too many closure variables in function."), arg |-> 0]
        ELSE [m |-> Store([m EXCEPT !.current[compiler].upvalues =
                                        Append(@, [index |-> index, isLocal |-> isLocal])],
                          m.current[compiler].function, "upvalueCount", Len(upvalues) + 1),
              arg |-> Len(upvalues)]))

\* returns [m, arg]
RECURSIVE resolveUpvalue(_, _, _)
resolveUpvalue(m, compiler, name) ==
    IF compiler = 1 THEN [m |-> m, arg |-> -1]
    ELSE With(resolveLocal(m, compiler - 1, name), LAMBDA local :
             IF local.arg # -1
             THEN addUpvalue([local.m EXCEPT
                                 !.current[compiler - 1].locals[local.arg + 1].isCaptured = TRUE],
                             compiler, local.arg, TRUE)
             ELSE With(resolveUpvalue(local.m, compiler - 1, name), LAMBDA upvalue :
                      IF upvalue.arg # -1
                      THEN addUpvalue(upvalue.m, compiler, upvalue.arg, FALSE)
                      ELSE [m |-> upvalue.m, arg |-> -1]))

addLocal(m, name) ==
    IF Len(m.current[Len(m.current)].locals) = UINT8_COUNT
    THEN error(m, "Too many local variables in function.")
    ELSE [m EXCEPT !.current[Len(m.current)].locals =
                       Append(@, [name |-> name, depth |-> -1, isCaptured |-> FALSE])]

\* the loop runs from the last local down to the first one of an enclosing scope
declareVariable(m) ==
    With(m.current[Len(m.current)], LAMBDA compiler :
    With({i \in 1..Len(compiler.locals) :
             compiler.locals[i].depth # -1 /\ compiler.locals[i].depth < compiler.scopeDepth},
         LAMBDA outer :
        IF compiler.scopeDepth = 0 THEN m
        ELSE addLocal(IF \E i \in 1..Len(compiler.locals) :
                             /\ \A j \in outer : j < i
                             /\ compiler.locals[i].name = m.parser.previous
                      THEN error(m, "Already a variable with this name in this scope.")
                      ELSE m,
                      m.parser.previous)))

\* returns [m, constant]
parseVariable(m, errorMessage) ==
    With(declareVariable(consume(m, "TOKEN_IDENTIFIER", errorMessage)), LAMBDA m1 :
        IF m1.current[Len(m1.current)].scopeDepth > 0 THEN [m |-> m1, constant |-> 0]
        ELSE identifierConstant(m1, m1.parser.previous))

markInitialized(m) ==
    IF m.current[Len(m.current)].scopeDepth = 0 THEN m
    ELSE [m EXCEPT !.current[Len(m.current)].locals[Len(m.current[Len(m.current)].locals)].depth =
                       m.current[Len(m.current)].scopeDepth]

defineVariable(m, global) ==
    IF m.current[Len(m.current)].scopeDepth > 0 THEN markInitialized(m)
    ELSE emitBytes(m, <<Op("OP_DEFINE_GLOBAL"), global>>)

(***************************************************************************)
(* The parser (chunk.c) is recursive descent.  m.parser.calls is the C     *)
(* call stack of the parse functions in progress, innermost last: a frame  *)
(* [fn, at, a, b, c] names the function, the point it resumes at when the  *)
(* function it called returns, and its parameters and locals (a is         *)
(* canAssign for a ParseFn).  A parse function is an operator from the     *)
(* machine and its own frame to the machine: it runs from the resume point *)
(* to its next call of a parse function, or to its return.  A returned     *)
(* value is left in m.parser.ret.                                          *)
(***************************************************************************)
Top(m) == m.parser.calls[Len(m.parser.calls)]

Frame(fn, a, b) == [fn |-> fn, at |-> 0, a |-> a, b |-> b, c |-> 0]

\* call callee; the caller resumes at the point at
Call(m, at, callee) ==
    [m EXCEPT !.parser.calls = Append([@ EXCEPT ![Len(@)].at = at], callee)]

\* continue at the point at in the next step
Goto(m, at) == [m EXCEPT !.parser.calls[Len(m.parser.calls)].at = at]

Return(m) == [m EXCEPT !.parser.calls = SubSeq(@, 1, Len(@) - 1)]

ReturnValue(m, value) == [Return(m) EXCEPT !.parser.ret = value]

\* a call that is the last thing the caller does
TailCall(m, callee) == [m EXCEPT !.parser.calls[Len(m.parser.calls)] = callee]

\* assignment to a local of the function in progress
Keep(m, local, value) == [m EXCEPT !.parser.calls[Len(m.parser.calls)][local] = value]

Precedence ==
    <<"PREC_NONE", "PREC_ASSIGNMENT", "PREC_OR", "PREC_AND", "PREC_EQUALITY",
      "PREC_COMPARISON", "PREC_TERM", "PREC_FACTOR", "PREC_UNARY", "PREC_CALL",
      "PREC_PRIMARY">>

Prec(name) == (CHOOSE i \in 1..Len(Precedence) : Precedence[i] = name) - 1

ParseRule(prefix, infix, precedence) ==
    [prefix |-> prefix, infix |-> infix, precedence |-> Prec(precedence)]

\* rules[type]; a token type the table has no line for has the zero rule
getRule(type) ==
    CASE type = "TOKEN_LEFT_PAREN" -> ParseRule("grouping", "call", "PREC_CALL")
      [] type = "TOKEN_LEFT_BRACE" -> ParseRule("blockExpr", "NULL", "PREC_NONE")
      [] type = "TOKEN_LEFT_SQUARE" -> ParseRule("list", "index_", "PREC_CALL")
      [] type = "TOKEN_DOT" -> ParseRule("NULL", "dot", "PREC_CALL")
      [] type = "TOKEN_MINUS" -> ParseRule("unary", "binary", "PREC_TERM")
      [] type = "TOKEN_PLUS" -> ParseRule("NULL", "binary", "PREC_TERM")
      [] type \in {"TOKEN_SLASH", "TOKEN_STAR"} -> ParseRule("NULL", "binary", "PREC_FACTOR")
      [] type = "TOKEN_NOT" -> ParseRule("unary", "NULL", "PREC_NONE")
      [] type \in {"TOKEN_BANG_EQUAL", "TOKEN_EQUAL_EQUAL"} ->
             ParseRule("NULL", "binary", "PREC_EQUALITY")
      [] type \in {"TOKEN_GREATER", "TOKEN_GREATER_EQUAL", "TOKEN_LESS", "TOKEN_LESS_EQUAL"} ->
             ParseRule("NULL", "binary", "PREC_COMPARISON")
      [] type = "TOKEN_IDENTIFIER" -> ParseRule("variable", "NULL", "PREC_NONE")
      [] type = "TOKEN_STRING" -> ParseRule("string", "NULL", "PREC_NONE")
      [] type = "TOKEN_NUMBER" -> ParseRule("number", "NULL", "PREC_NONE")
      [] type = "TOKEN_AND" -> ParseRule("NULL", "and_", "PREC_AND")
      [] type = "TOKEN_CLASS" -> ParseRule("classDeclaration", "NULL", "PREC_NONE")
      [] type \in {"TOKEN_FALSE", "TOKEN_NIL", "TOKEN_TRUE"} ->
             ParseRule("literal", "NULL", "PREC_NONE")
      [] type = "TOKEN_FOR" -> ParseRule("forStatement", "NULL", "PREC_NONE")
      [] type = "TOKEN_FUNC" -> ParseRule("funcDeclaration", "NULL", "PREC_NONE")
      [] type = "TOKEN_IF" -> ParseRule("ifStatement", "NULL", "PREC_NONE")
      [] type = "TOKEN_OR" -> ParseRule("NULL", "or_", "PREC_OR")
      [] type = "TOKEN_PRINT" -> ParseRule("printStatement", "NULL", "PREC_NONE")
      [] type = "TOKEN_RETURN" -> ParseRule("returnStatement", "NULL", "PREC_NONE")
      [] type = "TOKEN_SUPER" -> ParseRule("super_", "NULL", "PREC_NONE")
      [] type = "TOKEN_THIS" -> ParseRule("this_", "NULL", "PREC_NONE")
      [] type = "TOKEN_VAR" -> ParseRule("varDeclaration", "NULL", "PREC_NONE")
      [] type = "TOKEN_WHILE" -> ParseRule("whileStatement", "NULL", "PREC_NONE")
      [] OTHER -> ParseRule("NULL", "NULL", "PREC_NONE")

\* a: precedence, b: canAssign
parsePrecedence(m, f) ==
    CASE f.at = 0 ->
             With(advance(m), LAMBDA m1 :
             With(getRule(TokenType(m1.parser.previous)).prefix, LAMBDA prefixRule :
                 IF prefixRule = "NULL" THEN Return(error(m1, "Expect expression."))
                 ELSE Call(Keep(m1, "b", f.a <= Prec("PREC_ASSIGNMENT")), 1,
                           Frame(prefixRule, f.a <= Prec("PREC_ASSIGNMENT"), 0))))
      [] f.at = 1 ->
             IF f.a <= getRule(TokenType(m.parser.current)).precedence
             THEN Call(advance(m), 1, Frame(getRule(TokenType(m.parser.current)).infix, f.b, 0))
             ELSE IF f.b /\ check(m, "TOKEN_EQUAL")
             THEN Return(error(advance(m), "Invalid assignment target."))
             ELSE Return(m)

\* expression(vm), the caller resuming at the point at
expression(m, at) == Call(m, at, Frame("parsePrecedence", Prec("PREC_ASSIGNMENT"), 0))

\* a: argCount
argumentList(m, f) ==
    CASE f.at = 0 -> IF check(m, "TOKEN_RIGHT_PAREN") THEN Goto(m, 2) ELSE expression(m, 1)
      [] f.at = 1 ->
             With(Keep(IF f.a = 255 THEN error(m, "Can't have more than 255 arguments.") ELSE m,
                       "a", (f.a + 1) % 256), LAMBDA m1 :
                 IF check(m1, "TOKEN_COMMA") THEN expression(advance(m1), 1) ELSE Goto(m1, 2))
      [] f.at = 2 ->
             ReturnValue(consume(m, "TOKEN_RIGHT_PAREN", "Expect ')' after arguments."), f.a)

\* b: endJump
and_(m, f) ==
    CASE f.at = 0 ->
             With(emitJump(m, Op("OP_JUMP_IF_FALSE")), LAMBDA endJump :
                 Call(Keep(emitBytes(endJump.m, <<Op("OP_POP")>>), "b", endJump.offset), 1,
                      Frame("parsePrecedence", Prec("PREC_AND"), 0)))
      [] f.at = 1 -> Return(patchJump(m, f.b))

\* b: operatorType
binary(m, f) ==
    CASE f.at = 0 ->
             With(TokenType(m.parser.previous), LAMBDA operatorType :
                 Call(Keep(m, "b", operatorType), 1,
                      Frame("parsePrecedence", getRule(operatorType).precedence + 1, 0)))
      [] f.at = 1 ->
             Return(emitBytes(m,
                 CASE f.b = "TOKEN_BANG_EQUAL" -> <<Op("OP_EQUAL"), Op("OP_NOT")>>
                   [] f.b = "TOKEN_EQUAL_EQUAL" -> <<Op("OP_EQUAL")>>
                   [] f.b = "TOKEN_GREATER" -> <<Op("OP_GREATER")>>
                   [] f.b = "TOKEN_GREATER_EQUAL" -> <<Op("OP_LESS"), Op("OP_NOT")>>
                   [] f.b = "TOKEN_LESS" -> <<Op("OP_LESS")>>
                   [] f.b = "TOKEN_LESS_EQUAL" -> <<Op("OP_GREATER"), Op("OP_NOT")>>
                   [] f.b = "TOKEN_PLUS" -> <<Op("OP_ADD")>>
                   [] f.b = "TOKEN_MINUS" -> <<Op("OP_SUBTRACT")>>
                   [] f.b = "TOKEN_STAR" -> <<Op("OP_MULTIPLY")>>
                   [] f.b = "TOKEN_SLASH" -> <<Op("OP_DIVIDE")>>
                   [] OTHER -> <<>>))

call(m, f) ==
    CASE f.at = 0 -> Call(m, 1, Frame("argumentList", 0, 0))
      [] f.at = 1 -> Return(emitBytes(m, <<Op("OP_CALL"), m.parser.ret>>))

\* b: entryCount
dict(m, f) ==
    CASE f.at = 0 ->
             With(consume(m, "TOKEN_LEFT_BRACE", "Expect '{' after 'dict'."), LAMBDA m1 :
                 Goto(m1, IF check(m1, "TOKEN_RIGHT_BRACE") THEN 4 ELSE 1))
      [] f.at = 1 ->
             expression(Keep(IF f.b = 255 THEN error(m, "Can't have more than 255 elements.")
                             ELSE m, "b", f.b + 1), 2)
      [] f.at = 2 ->
             expression(consume(m, "TOKEN_FAT_ARROW", "Expect '=>' after dict key."), 3)
      [] f.at = 3 -> IF check(m, "TOKEN_COMMA") THEN Goto(advance(m), 1) ELSE Goto(m, 4)
      [] f.at = 4 ->
             Return(emitBytes(consume(m, "TOKEN_RIGHT_BRACE", "Expect '}' after dict elements."),
                              <<Op("OP_DICT"), f.b % 256>>))

\* a: canAssign, b: name
dot(m, f) ==
    CASE f.at = 0 ->
             With(consume(m, "TOKEN_IDENTIFIER", "Expect property name after '.'."), LAMBDA m1 :
             With(identifierConstant(m1, m1.parser.previous), LAMBDA name :
                 IF f.a /\ check(name.m, "TOKEN_EQUAL")
                 THEN expression(Keep(advance(name.m), "b", name.constant), 1)
                 ELSE IF check(name.m, "TOKEN_LEFT_PAREN")
                 THEN Call(Keep(advance(name.m), "b", name.constant), 2,
                           Frame("argumentList", 0, 0))
                 ELSE Goto(Keep(name.m, "b", name.constant), 3)))
      [] f.at = 1 -> Return(emitBytes(m, <<Op("OP_SET_PROPERTY"), f.b>>))
      [] f.at = 2 -> Return(emitBytes(m, <<Op("OP_INVOKE"), f.b, m.parser.ret>>))
      [] f.at = 3 -> Return(emitBytes(m, <<Op("OP_GET_PROPERTY"), f.b>>))

grouping(m, f) ==
    CASE f.at = 0 -> expression(m, 1)
      [] f.at = 1 -> Return(consume(m, "TOKEN_RIGHT_PAREN", "Expect ')' after expression."))

\* a: canAssign
index_(m, f) ==
    CASE f.at = 0 -> expression(m, 1)
      [] f.at = 1 ->
             With(consume(m, "TOKEN_RIGHT_SQUARE", "Expect ']' after index."), LAMBDA m1 :
                 IF f.a /\ check(m1, "TOKEN_EQUAL") THEN expression(advance(m1), 2)
                 ELSE Goto(m1, 3))
      [] f.at = 2 -> Return(emitBytes(m, <<Op("OP_SET_INDEX")>>))
      [] f.at = 3 -> Return(emitBytes(m, <<Op("OP_GET_INDEX")>>))

\* b: elemCount
list(m, f) ==
    CASE f.at = 0 -> IF check(m, "TOKEN_RIGHT_SQUARE") THEN Goto(m, 2) ELSE expression(m, 1)
      [] f.at = 1 ->
             With(Keep(IF f.b = 255 THEN error(m, "Can't have more than 255 elements.") ELSE m,
                       "b", (f.b + 1) % 256), LAMBDA m1 :
                 IF check(m1, "TOKEN_COMMA") THEN expression(advance(m1), 1) ELSE Goto(m1, 2))
      [] f.at = 2 ->
             Return(emitBytes(consume(m, "TOKEN_RIGHT_SQUARE", "Expect ']' after list elements."),
                              <<Op("OP_LIST"), f.b>>))

literal(m, f) ==
    Return(emitBytes(m, CASE TokenType(m.parser.previous) = "TOKEN_FALSE" -> <<Op("OP_FALSE")>>
                          [] TokenType(m.parser.previous) = "TOKEN_NIL" -> <<Op("OP_NIL")>>
                          [] TokenType(m.parser.previous) = "TOKEN_TRUE" -> <<Op("OP_TRUE")>>
                          [] OTHER -> <<>>))

number(m, f) ==
    Return(emitConstant(m, Op("OP_CONSTANT"), NUMBER_VAL(strtod(m.parser.previous))))

\* b: endJump
or_(m, f) ==
    CASE f.at = 0 ->
             With(emitJump(m, Op("OP_JUMP_IF_FALSE")), LAMBDA elseJump :
             With(emitJump(elseJump.m, Op("OP_JUMP")), LAMBDA endJump :
                 Call(Keep(emitBytes(patchJump(endJump.m, elseJump.offset), <<Op("OP_POP")>>),
                           "b", endJump.offset), 1,
                      Frame("parsePrecedence", Prec("PREC_OR"), 0))))
      [] f.at = 1 -> Return(patchJump(m, f.b))

\* the lexeme without its quotes
string(m, f) ==
    With(copyString(m, SubSeq(Chars(m.parser.previous), 2, Len(Chars(m.parser.previous)) - 1)),
         LAMBDA s : Return(emitConstant(s.m, Op("OP_CONSTANT"), OBJ_VAL(s.ref))))

\* the head of namedVariable, and of forStatement's assignment: returns
\* [m, kind, arg], the kind of variable name resolves to and the operand
resolveVariable(m, name) ==
    With(resolveLocal(m, Len(m.current), name), LAMBDA local :
        IF local.arg # -1 THEN [m |-> local.m, kind |-> "LOCAL", arg |-> local.arg]
        ELSE With(resolveUpvalue(local.m, Len(m.current), name), LAMBDA upvalue :
                 IF upvalue.arg # -1
                 THEN [m |-> upvalue.m, kind |-> "UPVALUE", arg |-> upvalue.arg]
                 ELSE With(identifierConstant(upvalue.m, name), LAMBDA global :
                          [m |-> global.m, kind |-> "GLOBAL", arg |-> global.constant])))

getOp(kind) ==
    CASE kind = "LOCAL" -> Op("OP_GET_LOCAL")
      [] kind = "UPVALUE" -> Op("OP_GET_UPVALUE")
      [] kind = "GLOBAL" -> Op("OP_GET_GLOBAL")

setOp(kind) ==
    CASE kind = "LOCAL" -> Op("OP_SET_LOCAL")
      [] kind = "UPVALUE" -> Op("OP_SET_UPVALUE")
      [] kind = "GLOBAL" -> Op("OP_SET_GLOBAL")

\* a: name, b: canAssign, c: the set instruction
namedVariable(m, f) ==
    CASE f.at = 0 ->
             With(resolveVariable(m, f.a), LAMBDA var :
                 IF f.b /\ check(var.m, "TOKEN_EQUAL")
                 THEN expression(Keep(advance(var.m), "c", <<setOp(var.kind), var.arg>>), 1)
                 ELSE Goto(Keep(var.m, "c", <<getOp(var.kind), var.arg>>), 1))
      [] f.at = 1 -> Return(emitBytes(m, f.c))

\* a: canAssign
variable(m, f) ==
    IF softKeyword(m.parser.previous, "dict") /\ check(m, "TOKEN_LEFT_BRACE")
    THEN TailCall(m, Frame("dict", 0, 0))
    ELSE TailCall(m, Frame("namedVariable", m.parser.previous, f.a))

\* b: name, c: argCount
super_(m, f) ==
    CASE f.at = 0 ->
             With(consume(consume(
                      IF m.currentClass = <<>>
                      THEN error(m, "Can't use 'super' outside of a class.")
                      ELSE IF ~m.currentClass[Len(m.currentClass)].hasSuperclass
                      THEN error(m, "Can't use 'super' in a class with no superclass.")
                      ELSE m,
                      "TOKEN_DOT", "Expect '.' after 'super'."),
                      "TOKEN_IDENTIFIER", "Expect superclass method name."), LAMBDA m1 :
             With(identifierConstant(m1, m1.parser.previous), LAMBDA name :
                 Call(Keep(name.m, "b", name.constant), 1, Frame("namedVariable", "this", FALSE))))
      [] f.at = 1 ->
             IF check(m, "TOKEN_LEFT_PAREN")
             THEN Call(advance(m), 2, Frame("argumentList", 0, 0))
             ELSE Call(m, 4, Frame("namedVariable", "super", FALSE))
      [] f.at = 2 ->
             Call(Keep(m, "c", m.parser.ret), 3, Frame("namedVariable", "super", FALSE))
      [] f.at = 3 -> Return(emitBytes(m, <<Op("OP_SUPER_INVOKE"), f.b, f.c>>))
      [] f.at = 4 -> Return(emitBytes(m, <<Op("OP_GET_SUPER"), f.b>>))

this_(m, f) ==
    IF m.currentClass = <<>> THEN Return(error(m, "Can't use 'this' outside of a class."))
    ELSE TailCall(m, Frame("variable", FALSE, 0))

\* b: operatorType
unary(m, f) ==
    CASE f.at = 0 ->
             Call(Keep(m, "b", TokenType(m.parser.previous)), 1,
                  Frame("parsePrecedence", Prec("PREC_UNARY"), 0))
      [] f.at = 1 ->
             Return(emitBytes(m, CASE f.b = "TOKEN_NOT" -> <<Op("OP_NOT")>>
                                   [] f.b = "TOKEN_MINUS" -> <<Op("OP_NEGATE")>>
                                   [] OTHER -> <<>>))

\* a: type.  The Compiler of the function is the last of m.current until
\* endCompiler; its upvalues are read after that, from the C local.
function(m, f) ==
    CASE f.at = 0 ->
             With(consume(beginScope(initCompiler(m, f.a)),
                          "TOKEN_LEFT_PAREN", "Expect '(' after function name."), LAMBDA m1 :
                 IF m1.ub THEN m1
                 ELSE Goto(m1, IF check(m1, "TOKEN_RIGHT_PAREN") THEN 2 ELSE 1))
      [] f.at = 1 ->
             With(m.heap[currentChunk(m)].arity + 1, LAMBDA arity :
             With(parseVariable(IF arity > 255
                                THEN errorAtCurrent(Store(m, currentChunk(m), "arity", arity),
                                                    "Can't have more than 255 parameters.")
                                ELSE Store(m, currentChunk(m), "arity", arity),
                                "Expect parameter name."), LAMBDA constant :
             With(defineVariable(constant.m, constant.constant), LAMBDA m1 :
                 IF check(m1, "TOKEN_COMMA") THEN Goto(advance(m1), 1) ELSE Goto(m1, 2))))
      [] f.at = 2 ->
             Call(consume(consume(m, "TOKEN_RIGHT_PAREN", "Expect ')' after parameters."),
                          "TOKEN_LEFT_BRACE", "Expect '{' before function body."),
                  3, Frame("block", 0, 0))
      [] f.at = 3 ->
             With(m.current[Len(m.current)], LAMBDA compiler :
             With(emitConstant(endCompiler(m), Op("OP_CLOSURE"), OBJ_VAL(compiler.function)),
                  LAMBDA m1 :
                 IF m1.ub \/ Dangling(m1, compiler.function) THEN [m1 EXCEPT !.ub = TRUE]
                 ELSE Return(emitBytes(m1,
                          [i \in 1..(2 * m1.heap[compiler.function].upvalueCount) |->
                              IF i % 2 = 1
                              THEN (IF compiler.upvalues[(i + 1) \div 2].isLocal THEN 1 ELSE 0)
                              ELSE compiler.upvalues[i \div 2].index]))))

\* a: constant
method(m, f) ==
    CASE f.at = 0 ->
             With(consume(m, "TOKEN_IDENTIFIER", "Expect method name."), LAMBDA m1 :
             With(identifierConstant(m1, m1.parser.previous), LAMBDA constant :
                 Call(Keep(constant.m, "a", constant.constant), 1,
                      Frame("function",
                            IF Chars(m1.parser.previous) = Chars("init")
                            THEN "TYPE_INITIALIZER" ELSE "TYPE_METHOD", 0))))
      [] f.at = 1 -> Return(emitBytes(m, <<Op("OP_METHOD"), f.a>>))

\* b: className; the ClassCompiler is the last of m.currentClass
classDeclaration(m, f) ==
    CASE f.at = 0 ->
             With(consume(m, "TOKEN_IDENTIFIER", "Expect class name."), LAMBDA m1 :
             With(identifierConstant(m1, m1.parser.previous), LAMBDA nameConstant :
             With(defineVariable(emitBytes(declareVariable(nameConstant.m),
                                           <<Op("OP_CLASS"), nameConstant.constant>>),
                                 nameConstant.constant), LAMBDA m2 :
             With(Keep([m2 EXCEPT !.currentClass = Append(@, [hasSuperclass |-> FALSE])],
                       "b", m1.parser.previous), LAMBDA m3 :
                 IF check(m3, "TOKEN_LESS")
                 THEN Call(consume(advance(m3), "TOKEN_IDENTIFIER", "Expect superclass name."),
                           1, Frame("variable", FALSE, 0))
                 ELSE Call(m3, 3, Frame("namedVariable", m1.parser.previous, FALSE))))))
      [] f.at = 1 ->
             Call(defineVariable(addLocal(beginScope(
                      IF f.b = m.parser.previous
                      THEN error(m, "A class can't inherit from itself.") ELSE m), "super"), 0),
                  2, Frame("namedVariable", f.b, FALSE))
      [] f.at = 2 ->
             Call([emitBytes(m, <<Op("OP_INHERIT")>>)
                      EXCEPT !.currentClass[Len(m.currentClass)].hasSuperclass = TRUE],
                  3, Frame("namedVariable", f.b, FALSE))
      [] f.at = 3 ->
             Goto(consume(m, "TOKEN_LEFT_BRACE", "Expect '{' before class body."), 4)
      [] f.at = 4 ->
             IF ~check(m, "TOKEN_RIGHT_BRACE") /\ ~check(m, "TOKEN_EOF")
             THEN Call(m, 4, Frame("method", 0, 0))
             ELSE With(consume(m, "TOKEN_RIGHT_BRACE", "Expect '}' after class body."),
                       LAMBDA m1 :
                      Return([(IF m.currentClass[Len(m.currentClass)].hasSuperclass
                               THEN endScope(m1) ELSE m1)
                                 EXCEPT !.currentClass = SubSeq(@, 1, Len(@) - 1)]))

\* a: global, b: funcName
funcDeclaration(m, f) ==
    CASE f.at = 0 ->
             IF check(m, "TOKEN_IDENTIFIER")
             THEN With(parseVariable(m, "Expect function name."), LAMBDA global :
                      Call(Keep(Keep(markInitialized(global.m), "a", global.constant),
                                "b", global.m.parser.previous),
                           1, Frame("function", "TYPE_FUNCTION", 0)))
             ELSE TailCall(m, Frame("function", "TYPE_FUNCTION", 0))
      [] f.at = 1 -> TailCall(defineVariable(m, f.a), Frame("namedVariable", f.b, FALSE))

\* a: global, b: varName
varDeclaration(m, f) ==
    CASE f.at = 0 ->
             With(parseVariable(m, "Expect variable name."), LAMBDA global :
             With(Keep(Keep(global.m, "a", global.constant), "b", global.m.parser.previous),
                  LAMBDA m1 :
                 IF check(m1, "TOKEN_EQUAL") THEN expression(advance(m1), 1)
                 ELSE Goto(emitBytes(m1, <<Op("OP_NIL")>>), 1)))
      [] f.at = 1 ->
             TailCall(defineVariable(consume(m, "TOKEN_SEMICOLON",
                                             "Expect ';' after variable declaration."), f.a),
                      Frame("namedVariable", f.b, FALSE))

expressionStatement(m, f) ==
    CASE f.at = 0 -> expression(m, 1)
      [] f.at = 1 -> Return(consume(m, "TOKEN_SEMICOLON", "Expect ';' after expression."))

\* a: varName, b: loopStart, c: exitJump
forStatement(m, f) ==
    CASE f.at = 0 ->
             With(parseVariable(beginScope(m), "Expect variable name after 'for'."),
                  LAMBDA global :
                 expression(
                     consume(defineVariable(emitBytes(Keep(global.m, "a", global.m.parser.previous),
                                                      <<Op("OP_NIL")>>),
                                            global.constant),
                             "TOKEN_IN", "Expect 'in' after variable name."), 1))
      [] f.at = 1 ->
             With(emitBytes(m, <<Op("OP_INT"), 0>>), LAMBDA m1 :
             With(emitJump(m1, Op("OP_NEXT_JUMP")), LAMBDA exitJump :
             With(resolveVariable(exitJump.m, f.a), LAMBDA var :
                 Call(Keep(Keep(consume(emitBytes(var.m, <<setOp(var.kind), var.arg,
                                                           Op("OP_POP")>>),
                                        "TOKEN_LEFT_BRACE", "Expected '{' for 'for' body"),
                                "b", Count(m1)), "c", exitJump.offset),
                      2, Frame("block", 0, 0)))))
      [] f.at = 2 ->
             Return(endScope(patchJump(emitLoop(emitBytes(m, <<Op("OP_POP")>>), f.b), f.c)))

\* b: thenJump, c: elseJump
ifStatement(m, f) ==
    CASE f.at = 0 -> expression(m, 1)
      [] f.at = 1 ->
             With(emitJump(m, Op("OP_JUMP_IF_FALSE")), LAMBDA thenJump :
                 Call(Keep(consume(emitBytes(thenJump.m, <<Op("OP_POP")>>),
                                   "TOKEN_LEFT_BRACE", "Expected '{' for 'if' body"),
                           "b", thenJump.offset),
                      2, Frame("block", 0, 0)))
      [] f.at = 2 ->
             With(emitJump(m, Op("OP_JUMP")), LAMBDA elseJump :
             With(Keep(emitBytes(patchJump(elseJump.m, f.b), <<Op("OP_POP")>>),
                       "c", elseJump.offset), LAMBDA m1 :
                 IF check(m1, "TOKEN_ELSE")
                 THEN Call(consume(advance(m1), "TOKEN_LEFT_BRACE", "Expected '{' for 'if' body"),
                           3, Frame("block", 0, 0))
                 ELSE Goto(m1, 3)))
      [] f.at = 3 -> Return(patchJump(m, f.c))

printStatement(m, f) ==
    CASE f.at = 0 -> expression(m, 1)
      [] f.at = 1 ->
             Return(emitBytes(consume(m, "TOKEN_SEMICOLON", "Expect ';' after value."),
                              <<Op("OP_PRINT")>>))

returnStatement(m, f) ==
    CASE f.at = 0 ->
             With(IF m.current[Len(m.current)].type = "TYPE_SCRIPT"
                  THEN error(m, "Can't return from top-level code.") ELSE m, LAMBDA m1 :
                 IF check(m1, "TOKEN_SEMICOLON") THEN Return(emitReturn(advance(m1)))
                 ELSE expression(IF m.current[Len(m.current)].type = "TYPE_INITIALIZER"
                                 THEN error(m1, "Can't return a value from an initializer.")
                                 ELSE m1, 1))
      [] f.at = 1 ->
             Return(emitBytes(consume(m, "TOKEN_SEMICOLON", "Expect ';' after return value."),
                              <<Op("OP_RETURN")>>))

\* b: loopStart, c: exitJump
whileStatement(m, f) ==
    CASE f.at = 0 ->
             With(emitBytes(m, <<Op("OP_NIL")>>), LAMBDA m1 :
                 expression(Keep(m1, "b", Count(m1)), 1))
      [] f.at = 1 ->
             With(emitJump(m, Op("OP_JUMP_IF_FALSE")), LAMBDA exitJump :
                 Call(Keep(consume(emitBytes(exitJump.m, <<Op("OP_POP"), Op("OP_POP")>>),
                                   "TOKEN_LEFT_BRACE", "Expected '{' for 'while' body"),
                           "c", exitJump.offset),
                      2, Frame("block", 0, 0)))
      [] f.at = 2 ->
             Return(emitBytes(patchJump(emitLoop(m, f.b), f.c), <<Op("OP_POP")>>))

RECURSIVE synchronize(_)
synchronize(m) ==
    With([m EXCEPT !.parser.panicMode = FALSE], LAMBDA m1 :
        IF \/ check(m1, "TOKEN_EOF")
           \/ TokenType(m1.parser.previous) = "TOKEN_SEMICOLON"
           \/ TokenType(m1.parser.current) \in
                  {"TOKEN_CLASS", "TOKEN_FUNC", "TOKEN_VAR", "TOKEN_FOR", "TOKEN_IF",
                   "TOKEN_WHILE", "TOKEN_PRINT", "TOKEN_RETURN"}
        THEN m1
        ELSE synchronize(advance(m1)))

\* the function the if chain of statement and of block calls for a keyword
keywordStatement(type) ==
    IF type \in {"TOKEN_CLASS", "TOKEN_FOR", "TOKEN_FUNC", "TOKEN_IF", "TOKEN_PRINT",
                 "TOKEN_RETURN", "TOKEN_VAR", "TOKEN_WHILE"}
    THEN getRule(type).prefix ELSE "NULL"

block(m, f) ==
    CASE f.at = 0 ->
             Goto(IF check(m, "TOKEN_RIGHT_BRACE") THEN emitBytes(m, <<Op("OP_NIL")>>) ELSE m, 1)
      [] f.at = 1 ->
             IF check(m, "TOKEN_RIGHT_BRACE") \/ check(m, "TOKEN_EOF")
             THEN Return(consume(m, "TOKEN_RIGHT_BRACE", "Expect '}' after block."))
             ELSE IF keywordStatement(TokenType(m.parser.current)) # "NULL"
             THEN Call(advance(m), 4,
                       Frame(keywordStatement(TokenType(m.parser.current)), FALSE, 0))
             ELSE IF check(m, "TOKEN_LEFT_BRACE")
             THEN Call(beginScope(advance(m)), 2, Frame("block", 0, 0))
             ELSE expression(m, 3)
      [] f.at = 2 -> Goto(endScope(m), 4)
      [] f.at = 3 ->
             Goto(IF check(m, "TOKEN_SEMICOLON") THEN advance(m)
                  ELSE IF check(m, "TOKEN_RIGHT_BRACE") THEN m
                  ELSE errorAtCurrent(m, "Expect ';' or '}' at end of expression."), 4)
      [] f.at = 4 ->
             Goto(IF ~check(m, "TOKEN_RIGHT_BRACE") /\ ~check(m, "TOKEN_EOF")
                  THEN emitBytes(m, <<Op("OP_POP")>>) ELSE m, 1)

blockExpr(m, f) ==
    CASE f.at = 0 -> Call(beginScope(m), 1, Frame("block", 0, 0))
      [] f.at = 1 -> Return(endScope(m))

statement(m, f) ==
    CASE f.at = 0 ->
             IF keywordStatement(TokenType(m.parser.current)) # "NULL"
             THEN Call(advance(m), 2,
                       Frame(keywordStatement(TokenType(m.parser.current)), FALSE, 0))
             ELSE IF check(m, "TOKEN_LEFT_BRACE")
             THEN Call(beginScope(advance(m)), 1, Frame("block", 0, 0))
             ELSE Call(m, 2, Frame("expressionStatement", 0, 0))
      [] f.at = 1 -> Goto(endScope(m), 2)
      [] f.at = 2 ->
             With(emitBytes(m, <<Op("OP_POP")>>), LAMBDA m1 :
                 Return(IF m1.parser.panicMode THEN synchronize(m1) ELSE m1))

\* a: source; returns the function, or NULL
\* compile that hands the function over whatever the parser has reported.
compileRegardless(m, f) ==
    CASE f.at = 0 ->
             With(initCompiler(initScanner(m, f.a), "TYPE_SCRIPT"), LAMBDA m1 :
                 Goto(advance([m1 EXCEPT !.parser.hadError = FALSE,
                                         !.parser.panicMode = FALSE]), 1))
      [] f.at = 1 ->
             IF check(m, "TOKEN_EOF")
             THEN ReturnValue(endCompiler(advance(m)), currentChunk(m))
             ELSE Call(m, 1, Frame("statement", 0, 0))

compile(m, f) ==
    CASE f.at = 0 ->
             With(initCompiler(initScanner(m, f.a), "TYPE_SCRIPT"), LAMBDA m1 :
                 Goto(advance([m1 EXCEPT !.parser.hadError = FALSE,
                                         !.parser.panicMode = FALSE]), 1))
      [] f.at = 1 ->
             IF check(m, "TOKEN_EOF")
             THEN ReturnValue(endCompiler(advance(m)),
                              IF m.parser.hadError THEN NULL ELSE currentChunk(m))
             ELSE Call(m, 1, Frame("statement", 0, 0))

(***************************************************************************)
(* Calls, properties and upvalues (vm_utils.c).  A function that returns   *)
(* bool returns [m, ok].  Wild tells the values that no C code can         *)
(* inspect: the contents of a cell that was never written and a pointer to *)
(* a freed object; inspecting one is undefined behaviour.                  *)
(***************************************************************************)
Ok(m) == [m |-> m, ok |-> TRUE]

Fail(m) == [m |-> m, ok |-> FALSE]

Crash(m) == [m |-> [m EXCEPT !.ub = TRUE], ok |-> FALSE]

Wild(m, value) == value = GARBAGE \/ (IS_OBJ(value) /\ ~IsLive(m.heap, AS_OBJ(value)))

\* OBJ_TYPE(value) where the code has made sure of IS_OBJ
OBJ_TYPE(m, value) == m.heap[AS_OBJ(value)].type

\* callClosure that lets one frame more in before it reports the overflow.
callClosureLate(m, closure, argCount) ==
    IF m.ub \/ Dangling(m, closure) \/ Dangling(m, m.heap[closure].function) THEN Crash(m)
    ELSE IF argCount # m.heap[m.heap[closure].function].arity
    THEN Fail(runtimeError(m, vfprintf("Expected %d arguments but got %d.",
                 <<m.heap[m.heap[closure].function].arity, argCount>>)))
    ELSE IF m.frameCount = FRAMES_MAX + 1 THEN Fail(runtimeError(m, "Stack overflow."))
    ELSE Ok([m EXCEPT !.frames = [i \in 1..(IF m.frameCount < Len(@) THEN Len(@)
                                            ELSE m.frameCount + 1) |->
                                     IF i = m.frameCount + 1
                                     THEN [closure |-> closure, ip |-> 0,
                                           slots |-> m.stackTop - argCount - 1]
                                     ELSE @[i]],
                      !.frameCount = @ + 1])

callClosure(m, closure, argCount) ==
    IF m.ub \/ Dangling(m, closure) \/ Dangling(m, m.heap[closure].function) THEN Crash(m)
    ELSE IF argCount # m.heap[m.heap[closure].function].arity
    THEN Fail(runtimeError(m, vfprintf("Expected %d arguments but got %d.",
                 <<m.heap[m.heap[closure].function].arity, argCount>>)))
    ELSE IF m.frameCount = FRAMES_MAX THEN Fail(runtimeError(m, "Stack overflow."))
    ELSE Ok([m EXCEPT !.frames = [i \in 1..(IF m.frameCount < Len(@) THEN Len(@)
                                            ELSE m.frameCount + 1) |->
                                     IF i = m.frameCount + 1
                                     THEN [closure |-> closure, ip |-> 0,
                                           slots |-> m.stackTop - argCount - 1]
                                     ELSE @[i]],
                      !.frameCount = @ + 1])

\* native(vm, argCount, vm->stackTop - argCount) and what callValue does with
\* the result that the native has pushed
callValueNative(m, native, argCount) ==
    With(callNative(m, native, argCount, m.stackTop - argCount), LAMBDA called :
        IF ~called.ok THEN called
        ELSE Ok(PUSH([called.m EXCEPT !.stackTop = @ - 1 - (argCount + 1)],
                     peek(called.m, 0))))

\* the initializer of a class, or NULL
initializerOf(m, klass) ==
    With(vmTableGet(m, <<klass, "methods">>, OBJ_VAL(m.initString)), LAMBDA initializer :
        IF initializer.found THEN AS_OBJ(initializer.value) ELSE NULL)

callValue(m, callee, argCount) ==
    IF m.ub \/ Wild(m, callee) THEN Crash(m)
    ELSE IF ~IS_OBJ(callee)
            \/ OBJ_TYPE(m, callee) \notin {"boundMethod", "boundNative", "class", "closure",
                                           "native"}
    THEN Fail(runtimeError(m, "Can only call functions and classes."))
    ELSE IF OBJ_TYPE(m, callee) = "class"
    THEN With(newInstance(m, AS_OBJ(callee)), LAMBDA instance :
         With(SetSlot(instance.m, instance.m.stackTop - argCount - 1, OBJ_VAL(instance.ref)),
              LAMBDA m1 :
             IF m1.ub \/ Dangling(m1, AS_OBJ(callee)) THEN Crash(m1)
             ELSE IF initializerOf(m1, AS_OBJ(callee)) # NULL
             THEN callClosure(m1, initializerOf(m1, AS_OBJ(callee)), argCount)
             ELSE IF argCount # 0
             THEN Fail(runtimeError(m1, vfprintf("Expected 0 arguments but got %d.",
                                                 <<argCount>>)))
             ELSE Ok(m1)))
    ELSE With(m.heap[AS_OBJ(callee)], LAMBDA o :
         With(IF o.type \in {"boundMethod", "boundNative"}
              THEN SetSlot(m, m.stackTop - argCount - 1, o.receiver) ELSE m, LAMBDA m1 :
             IF o.type \in {"boundNative", "native"}
             THEN callValueNative(m1, IF o.type = "native" THEN o.function ELSE o.method,
                                  argCount)
             ELSE callClosure(m1, IF o.type = "closure" THEN AS_OBJ(callee) ELSE o.method,
                              argCount)))

\* OBJ_TYPE(value) where the code has not made sure of IS_OBJ: the header of
\* whatever the payload bits point at
NoObject(m, value) == Wild(m, value) \/ ~IS_OBJ(value)

\* AS_CLASS(value) and the like where the code has not made sure of the type:
\* the fields of one struct read through a pointer to another
NotA(m, value, type) == NoObject(m, value) \/ OBJ_TYPE(m, value) # type

\* "idx != floor(idx)" is the case for NAN only: the other numbers are whole
getIndex(m, object, index) ==
    IF m.ub \/ NoObject(m, object) \/ Wild(m, index) THEN Crash(m)
    ELSE With(m.heap[AS_OBJ(object)], LAMBDA o :
        CASE o.type = "dict" ->
               With(vmTableGet(m, <<AS_OBJ(object), "values">>, index), LAMBDA get :
                   IF ~get.found THEN Fail(runtimeError(get.m, "Dict key not present."))
                   ELSE Ok(PUSH(get.m, get.value)))
          [] o.type = "list" ->
               IF ~IS_NUMBER(index) THEN Fail(runtimeError(m, "List index must be a number."))
               ELSE IF isnan(AS_NUMBER(index))
               THEN Fail(runtimeError(m, "List index must be a whole number."))
               ELSE IF AS_NUMBER(index) < 0 \/ AS_NUMBER(index) >= Len(o.values)
               THEN Fail(runtimeError(m, "List index out of bounds."))
               ELSE Ok(PUSH(m, o.values[AS_NUMBER(index) + 1]))
          [] o.type = "string" ->
               IF ~IS_NUMBER(index) THEN Fail(runtimeError(m, "String index must be a number."))
               ELSE IF isnan(AS_NUMBER(index))
               THEN Fail(runtimeError(m, "String index must be a whole number."))
               ELSE IF AS_NUMBER(index) < 0 \/ AS_NUMBER(index) >= Len(o.chars)
               THEN Fail(runtimeError(m, "String index out of bounds."))
               ELSE With(copyString(m, <<o.chars[AS_NUMBER(index) + 1]>>), LAMBDA copy :
                        Ok(PUSH(copy.m, OBJ_VAL(copy.ref))))
          [] OTHER -> Fail(runtimeError(m, "Can only index lists and strings.")))

\* rawGetIndex with the last element out of reach.
rawGetIndexShort(m, object, index) ==
    IF m.ub \/ NoObject(m, object) THEN Crash(m)
    ELSE With(m.heap[AS_OBJ(object)], LAMBDA o :
        CASE o.type = "list" ->
               IF index < 0 \/ index + 1 >= Len(o.values) THEN Fail(m)
               ELSE Ok(PUSH(m, o.values[index + 1]))
          [] o.type = "string" ->
               IF index < 0 \/ index + 1 >= Len(o.chars) THEN Fail(m)
               ELSE With(copyString(m, <<o.chars[index + 1]>>), LAMBDA copy :
                        Ok(PUSH(copy.m, OBJ_VAL(copy.ref))))
          [] OTHER -> Fail(m))

rawGetIndex(m, object, index) ==
    IF m.ub \/ NoObject(m, object) THEN Crash(m)
    ELSE With(m.heap[AS_OBJ(object)], LAMBDA o :
        CASE o.type = "list" ->
               IF index < 0 \/ index >= Len(o.values) THEN Fail(m)
               ELSE Ok(PUSH(m, o.values[index + 1]))
          [] o.type = "string" ->
               IF index < 0 \/ index >= Len(o.chars) THEN Fail(m)
               ELSE With(copyString(m, <<o.chars[index + 1]>>), LAMBDA copy :
                        Ok(PUSH(copy.m, OBJ_VAL(copy.ref))))
          [] OTHER -> Fail(m))

setIndex(m, object, index, value) ==
    IF m.ub \/ NoObject(m, object) \/ Wild(m, index) THEN Crash(m)
    ELSE With(m.heap[AS_OBJ(object)], LAMBDA o :
        CASE o.type = "dict" ->
               With(vmTableSet(m, <<AS_OBJ(object), "values">>, index, value), LAMBDA set :
                   IF set.m.ub THEN Crash(set.m) ELSE Ok(PUSH(set.m, value)))
          [] o.type = "list" ->
               IF ~IS_NUMBER(index) THEN Fail(runtimeError(m, "List index must be a number."))
               ELSE IF isnan(AS_NUMBER(index))
               THEN Fail(runtimeError(m, "List index must be a whole number."))
               ELSE IF AS_NUMBER(index) < 0 \/ AS_NUMBER(index) >= Len(o.values)
               THEN Fail(runtimeError(m, "List index out of bounds."))
               ELSE Ok([m EXCEPT !.heap[AS_OBJ(object)].values[AS_NUMBER(index) + 1] = value])
          [] o.type = "string" -> Fail(runtimeError(m, "Cannot assign to string indexes."))
          [] OTHER -> Fail(runtimeError(m, "Can only index lists and strings.")))

invokeFromClass(m, klass, name, argCount) ==
    IF m.ub \/ Dangling(m, klass) THEN Crash(m)
    ELSE With(vmTableGet(m, <<klass, "methods">>, OBJ_VAL(name)), LAMBDA member :
        IF ~member.found THEN Fail(runtimeError(member.m, "Undefined property '%s'."))
        ELSE callClosure(member.m, AS_OBJ(member.value), argCount))

\* the table of native members of a string, a list, a dict or an option
Members(type) ==
    CASE type = "string" -> "stringMembers"
      [] type = "list" -> "listMembers"
      [] type = "dict" -> "dictMembers"
      [] type = "option" -> "optionMembers"

HasMembers(type) == type \in {"string", "list", "dict", "option"}

\* invoke with the methods of the class looked up before the fields
invokeMethodFirst(m, name, argCount) ==
    With(peek(m, argCount), LAMBDA receiver :
    IF m.ub \/ NoObject(m, receiver) THEN Crash(m)
    ELSE With(m.heap[AS_OBJ(receiver)], LAMBDA o :
        IF o.type = "instance"
        THEN With(vmTableGet(m, <<AS_OBJ(receiver), "fields">>, OBJ_VAL(name)), LAMBDA get :
                 IF get.found /\ ~vmTableGet(m, <<o.klass, "methods">>, OBJ_VAL(name)).found
                 THEN callValue(SetSlot(get.m, get.m.stackTop - argCount - 1, get.value),
                                get.value, argCount)
                 ELSE invokeFromClass(get.m, o.klass, name, argCount))
        ELSE IF HasMembers(o.type)
        THEN With(vmTableGet(m, <<NULL, Members(o.type)>>, OBJ_VAL(name)), LAMBDA member :
                 IF ~member.found THEN Fail(runtimeError(member.m, "Undefined method '%s'."))
                 ELSE With(newBoundNative(member.m, receiver,
                                          m.heap[AS_OBJ(member.value)].function), LAMBDA bound :
                          Ok(callValue(bound.m, OBJ_VAL(bound.ref), argCount).m)))
        ELSE Fail(runtimeError(m, "Value has no properties."))))

\* the result of callValue is dropped for native members
invoke(m, name, argCount) ==
    With(peek(m, argCount), LAMBDA receiver :
    IF m.ub \/ NoObject(m, receiver) THEN Crash(m)
    ELSE With(m.heap[AS_OBJ(receiver)], LAMBDA o :
        IF o.type = "instance"
        THEN With(vmTableGet(m, <<AS_OBJ(receiver), "fields">>, OBJ_VAL(name)), LAMBDA get :
                 IF get.found
                 THEN callValue(SetSlot(get.m, get.m.stackTop - argCount - 1, get.value),
                                get.value, argCount)
                 ELSE invokeFromClass(get.m, o.klass, name, argCount))
        ELSE IF HasMembers(o.type)
        THEN With(vmTableGet(m, <<NULL, Members(o.type)>>, OBJ_VAL(name)), LAMBDA member :
                 IF ~member.found THEN Fail(runtimeError(member.m, "Undefined method '%s'."))
                 ELSE With(newBoundNative(member.m, receiver,
                                          m.heap[AS_OBJ(member.value)].function), LAMBDA bound :
                          Ok(callValue(bound.m, OBJ_VAL(bound.ref), argCount).m)))
        ELSE Fail(runtimeError(m, "Value has no properties."))))

bindMethod(m, klass, name) ==
    IF m.ub \/ Dangling(m, klass) THEN Crash(m)
    ELSE With(vmTableGet(m, <<klass, "methods">>, OBJ_VAL(name)), LAMBDA member :
        IF ~member.found THEN Fail(runtimeError(member.m, "Undefined property '%s'."))
        ELSE With(newBoundMethod(member.m, peek(member.m, 0), AS_OBJ(member.value)),
                  LAMBDA bound : Ok(PUSH(pop(bound.m), OBJ_VAL(bound.ref)))))

getProperty(m, obj, name) ==
    IF m.ub \/ Wild(m, obj) THEN Crash(m)
    ELSE IF ~IS_OBJ(obj) THEN Fail(runtimeError(m, "Value has no properties."))
    ELSE With(m.heap[AS_OBJ(obj)], LAMBDA o :
        IF o.type = "instance"
        THEN With(vmTableGet(m, <<AS_OBJ(obj), "fields">>, OBJ_VAL(name)), LAMBDA property :
                 IF property.found THEN Ok(PUSH(pop(property.m), property.value))
                 ELSE bindMethod(property.m, o.klass, name))
        ELSE IF HasMembers(o.type)
        THEN With(vmTableGet(m, <<NULL, Members(o.type)>>, OBJ_VAL(name)), LAMBDA member :
                 IF ~member.found THEN Fail(runtimeError(member.m, "Undefined property '%s'."))
                 ELSE With(newBoundNative(member.m, obj,
                                          m.heap[AS_OBJ(member.value)].function), LAMBDA bound :
                          Ok(PUSH(bound.m, OBJ_VAL(bound.ref)))))
        ELSE Fail(runtimeError(m, "Value has no properties.")))

setProperty(m, obj, name, value) ==
    IF m.ub \/ Wild(m, obj) THEN Crash(m)
    ELSE IF ~IS_OBJ(obj) \/ OBJ_TYPE(m, obj) # "instance"
    THEN Fail(runtimeError(m, "Value has no fields."))
    ELSE With(vmTableSet(m, <<AS_OBJ(obj), "fields">>, OBJ_VAL(name), value), LAMBDA set :
             IF set.m.ub THEN Crash(set.m) ELSE Ok(PUSH(pop(pop(set.m)), value)))

\* the open upvalue at or below a slot, and the upvalue before it in the list
RECURSIVE findUpvalue(_, _, _, _)
findUpvalue(m, prevUpvalue, upvalue, local) ==
    IF upvalue # NULL /\ m.heap[upvalue].location > local
    THEN findUpvalue(m, upvalue, m.heap[upvalue].next, local)
    ELSE [prevUpvalue |-> prevUpvalue, upvalue |-> upvalue]

linkUpvalue(m, prevUpvalue, createdUpvalue) ==
    IF prevUpvalue = NULL THEN [m EXCEPT !.openUpvalues = createdUpvalue]
    ELSE [m EXCEPT !.heap[prevUpvalue].next = createdUpvalue]

\* a new upvalue for every capture, put at the head of the list
captureUpvalueFresh(m, local) ==
    With(newUpvalue(m, local), LAMBDA created :
        IF created.m.ub THEN created
        ELSE [m |-> [created.m EXCEPT !.heap[created.ref].next = m.openUpvalues,
                                      !.openUpvalues = created.ref],
              ref |-> created.ref])

captureUpvalue(m, local) ==
    With(findUpvalue(m, NULL, m.openUpvalues, local), LAMBDA at :
        IF at.upvalue # NULL /\ m.heap[at.upvalue].location = local
        THEN [m |-> m, ref |-> at.upvalue]
        ELSE With(newUpvalue(m, local), LAMBDA created :
                 IF created.m.ub THEN created
                 ELSE [m |-> linkUpvalue([created.m EXCEPT !.heap[created.ref].next = at.upvalue],
                                         at.prevUpvalue, created.ref),
                       ref |-> created.ref]))

\* upvalues closed without the value of their slot
RECURSIVE closeUpvaluesEmpty(_, _)
closeUpvaluesEmpty(m, last) ==
    IF m.openUpvalues # NULL /\ m.heap[m.openUpvalues].location >= last
    THEN closeUpvaluesEmpty([m EXCEPT !.heap[m.openUpvalues].location = -1,
                                      !.openUpvalues = m.heap[m.openUpvalues].next], last)
    ELSE m

\* a closed upvalue points at its own cell: location -1
RECURSIVE closeUpvalues(_, _)
closeUpvalues(m, last) ==
    IF m.openUpvalues # NULL /\ m.heap[m.openUpvalues].location >= last
    THEN closeUpvalues([m EXCEPT !.heap[m.openUpvalues].closed =
                                     Slot(m, m.heap[m.openUpvalues].location),
                                 !.heap[m.openUpvalues].location = -1,
                                 !.openUpvalues = m.heap[m.openUpvalues].next], last)
    ELSE m

\* *upvalue->location
readUpvalue(m, upvalue) ==
    IF m.heap[upvalue].location = -1 THEN m.heap[upvalue].closed
    ELSE Slot(m, m.heap[upvalue].location)

writeUpvalue(m, upvalue, value) ==
    IF m.heap[upvalue].location = -1 THEN [m EXCEPT !.heap[upvalue].closed = value]
    ELSE SetSlot(m, m.heap[upvalue].location, value)

defineMethod(m, name) ==
    IF m.ub \/ NotA(m, peek(m, 1), "class") THEN [m EXCEPT !.ub = TRUE]
    ELSE pop(vmTableSet(m, <<AS_OBJ(peek(m, 1)), "methods">>, OBJ_VAL(name), peek(m, 0)).m)

RECURSIVE tableAddAllFrom(_, _, _, _)
tableAddAllFrom(m, from, to, i) ==
    IF m.ub \/ i > from.capacity THEN m
    ELSE tableAddAllFrom(IF IS_EMPTY(from.entries[i].key) THEN m
                         ELSE vmTableSet(m, to, from.entries[i].key, from.entries[i].value).m,
                         from, to, i + 1)

\* tableAddAll that copies no entry.
tableAddAllNothing(m, from, to) ==
    IF Dangling(m, from[1]) \/ Dangling(m, to[1]) THEN [m EXCEPT !.ub = TRUE]
    ELSE m

tableAddAll(m, from, to) ==
    IF Dangling(m, from[1]) \/ Dangling(m, to[1]) THEN [m EXCEPT !.ub = TRUE]
    ELSE tableAddAllFrom(m, TableAt(m, from), to, 1)

\* isFalsey of a language where nil is false and every number is true.
isFalseyNil(value) ==
    IS_NIL(value) \/ (IS_BOOL(value) /\ ~AS_BOOL(value))

\* no option is ever constructed, so IS_OPTION is never the case
isFalsey(value) ==
    (IS_BOOL(value) /\ ~AS_BOOL(value)) \/ (IS_NUMBER(value) /\ AS_NUMBER(value) = 0)

concatenate(m) ==
    With(m.heap[AS_OBJ(peek(m, 1))].chars \o m.heap[AS_OBJ(peek(m, 0))].chars, LAMBDA chars :
    With(takeString(reallocate(m, 0, SizeOf("char") * (Len(chars) + 1)), chars), LAMBDA taken :
        IF taken.m.ub THEN Crash(taken.m)
        ELSE Ok(PUSH(pop(pop(taken.m)), OBJ_VAL(taken.ref)))))

(***************************************************************************)
(* printValue (value.c) and printObject (object.c): the bytes printf       *)
(* writes.  Numbers of the model are whole, and "%g" prints a whole number *)
(* below 10^6 in decimal and a larger one with six significant digits and  *)
(* an exponent.                                                            *)
(***************************************************************************)
RECURSIVE decimal(_)
decimal(n) == IF n < 10 THEN <<48 + n>> ELSE decimal(n \div 10) \o <<48 + (n % 10)>>

RECURSIVE stripZeros(_)
stripZeros(digits) ==
    IF Len(digits) > 1 /\ digits[Len(digits)] = 48
    THEN stripZeros(SubSeq(digits, 1, Len(digits) - 1)) ELSE digits

\* d.ddddde+XX of a whole number of more than six digits, rounded to even
exponential(n) ==
    With(Len(decimal(n)) - 1, LAMBDA e :
    With(10 ^ (e - 5), LAMBDA unit :
    With(IF 2 * (n % unit) > unit \/ (2 * (n % unit) = unit /\ (n \div unit) % 2 = 1)
         THEN n \div unit + 1 ELSE n \div unit, LAMBDA q :
    With(IF q = 10 ^ 6 THEN [q |-> 10 ^ 5, e |-> e + 1] ELSE [q |-> q, e |-> e], LAMBDA r :
    With(stripZeros(decimal(r.q)), LAMBDA digits :
        <<digits[1]>> \o (IF Len(digits) > 1 THEN <<46>> \o Tail(digits) ELSE <<>>)
        \o <<101, 43>> \o (IF r.e < 10 THEN <<48>> ELSE <<>>) \o decimal(r.e))))))

\* "%g" of the NAN that 0.0 / 0.0 yields on x86-64, whose sign bit is set
formatNumber(n) ==
    IF isnan(n) THEN Chars("-nan")
    ELSE IF n < 0 THEN <<45>> \o (IF -n < 10 ^ 6 THEN decimal(-n) ELSE exponential(-n))
    ELSE IF n < 10 ^ 6 THEN decimal(n) ELSE exponential(n)

printFunction(h, fn) ==
    IF h[fn].name = NULL THEN Chars("<script>")
    ELSE Chars("<func ") \o h[h[fn].name].chars \o Chars(">")

RECURSIVE printValue(_, _)
RECURSIVE printList(_, _, _)
RECURSIVE printDict(_, _, _, _)
printList(h, values, i) ==
    IF i > Len(values) THEN <<>>
    ELSE printValue(h, values[i]) \o (IF i < Len(values) THEN Chars(", ") ELSE <<>>)
         \o printList(h, values, i + 1)

\* the entry in hand is printed when the next one is found, the last one at the
\* end, also when the table holds no entry at all
printDict(h, entries, i, previous) ==
    IF i > Len(entries)
    THEN printValue(h, previous.key) \o Chars(" => ") \o printValue(h, previous.value)
    ELSE IF IS_EMPTY(entries[i].key) THEN printDict(h, entries, i + 1, previous)
    ELSE (IF IS_EMPTY(previous.key) THEN <<>>
          ELSE printValue(h, previous.key) \o Chars(" => ") \o printValue(h, previous.value)
               \o Chars(", "))
         \o printDict(h, entries, i + 1, entries[i])

printObject(h, value) ==
    With(h[AS_OBJ(value)], LAMBDA o :
        CASE o.type = "boundMethod" -> printFunction(h, h[o.method].function)
          [] o.type \in {"boundNative", "native"} -> Chars("<native fn>")
          [] o.type = "class" -> h[o.name].chars
          [] o.type = "closure" -> printFunction(h, o.function)
          [] o.type = "function" -> printFunction(h, AS_OBJ(value))
          [] o.type = "instance" -> h[h[o.klass].name].chars \o Chars(" instance")
          [] o.type = "list" -> Chars("[") \o printList(h, o.values, 1) \o Chars("]")
          [] o.type = "dict" ->
               Chars("dict {")
               \o printDict(h, o.values.entries, 1, [key |-> EMPTY_VAL, value |-> NIL_VAL])
               \o Chars("}")
          [] o.type = "string" -> o.chars
          [] o.type = "upvalue" -> Chars("upvalue"))

\* nil has no case: nothing is written for it
printValue(h, value) ==
    IF IS_BOOL(value) THEN (IF AS_BOOL(value) THEN Chars("true") ELSE Chars("false"))
    ELSE IF IS_NUMBER(value) THEN formatNumber(AS_NUMBER(value))
    ELSE IF IS_OBJ(value) THEN printObject(h, value)
    ELSE IF IS_EMPTY(value) THEN Chars("<empty value>")
    ELSE <<>>

(***************************************************************************)
(* The dispatch loop (vm.c).  run's local "frame" is vm.frame: the index   *)
(* of a frame, 0 for &vm->frames[-1].  An instruction reads its operands   *)
(* from the chunk at the offset it was fetched from.                       *)
(***************************************************************************)
Chunk(m) == m.heap[m.heap[m.frames[m.frame].closure].function]

\* the byte k places after the instruction that frame->ip points at
Byte(m, k) == Chunk(m).code[m.frames[m.frame].ip + 1 + k]

READ_SHORT(m) == Byte(m, 1) * 256 + Byte(m, 2)

\* READ_CONSTANT() for the operand byte at place k
READ_CONSTANT(m, k) == Chunk(m).constants[Byte(m, k) + 1]

READ_STRING(m, k) == AS_OBJ(READ_CONSTANT(m, k))

\* frame->ip += n
Skip(m, n) == [m EXCEPT !.frames[m.frame].ip = @ + n]

\* frame = &vm->frames[vm->frameCount - 1]
Reframe(r) == [r EXCEPT !.m.frame = r.m.frameCount]

\* the PUSH of vm.c: run returns INTERPRET_RUNTIME_ERROR when push fails
PushOrFail(m, value) == [m |-> push(m, value), ok |-> pushFits(m)]

\* the instruction pointer points at an instruction of a live chunk
CanFetch(m) ==
    /\ m.frame \in 1..Len(m.frames)
    /\ IsLive(m.heap, m.frames[m.frame].closure)
    /\ IsLive(m.heap, m.heap[m.frames[m.frame].closure].function)
    /\ m.frames[m.frame].ip < Len(Chunk(m).code)

\* a / b where the quotient is a whole number, and 0 / 0
quotient(a, b) ==
    IF isnan(a) \/ isnan(b) \/ (a = 0 /\ b = 0) THEN NAN
    ELSE IF (a < 0) = (b < 0) THEN (IF a < 0 THEN -a ELSE a) \div (IF b < 0 THEN -b ELSE b)
    ELSE -((IF a < 0 THEN -a ELSE a) \div (IF b < 0 THEN -b ELSE b))

BINARY_OP(m, valueType(_), op(_, _)) ==
    IF Wild(m, peek(m, 0)) \/ Wild(m, peek(m, 1)) THEN Crash(m)
    ELSE IF ~IS_NUMBER(peek(m, 0)) \/ ~IS_NUMBER(peek(m, 1))
    THEN Fail(runtimeError(m, "Operands must be numbers."))
    ELSE PushOrFail(pop(pop(m)), valueType(op(AS_NUMBER(peek(m, 1)), AS_NUMBER(peek(m, 0)))))

\* the loop of OP_LIST over the elemCount values below stackTop
RECURSIVE fillList(_, _, _)
fillList(m, ref, v) ==
    IF m.ub \/ v >= m.stackTop THEN m
    ELSE fillList(writeValueArray(m, ref, "values", "capacity", Slot(m, v)), ref, v + 1)

\* the loop of OP_DICT over the entryCount pairs below stackTop
RECURSIVE fillDict(_, _, _)
fillDict(m, ref, v) ==
    IF m.ub \/ v >= m.stackTop THEN m
    ELSE fillDict(vmTableSet(m, <<ref, "values">>, Slot(m, v), Slot(m, v + 1)).m, ref, v + 2)

\* the loop of OP_CLOSURE over the upvalues of the new closure; base is the
\* machine the operand bytes are read from
RECURSIVE fillUpvalues(_, _, _, _)
fillUpvalues(base, m, closure, i) ==
    IF m.ub \/ Dangling(m, closure) THEN [m EXCEPT !.ub = TRUE]
    ELSE IF i >= Len(m.heap[closure].upvalues) THEN m
    ELSE IF Byte(base, 2 + 2 * i) # 0
    THEN With(captureUpvalue(m, base.frames[base.frame].slots + Byte(base, 3 + 2 * i)),
              LAMBDA captured :
             IF captured.m.ub \/ Dangling(captured.m, closure)
             THEN [captured.m EXCEPT !.ub = TRUE]
             ELSE fillUpvalues(base, [captured.m EXCEPT
                                          !.heap[closure].upvalues[i + 1] = captured.ref],
                               closure, i + 1))
    ELSE fillUpvalues(base, [m EXCEPT !.heap[closure].upvalues[i + 1] =
                                 m.heap[m.frames[m.frame].closure].upvalues[
                                     Byte(base, 3 + 2 * i) + 1]],
                      closure, i + 1)

\* the upvalue of the running closure an instruction names
Upvalue(m) == m.heap[m.frames[m.frame].closure].upvalues[Byte(m, 1) + 1]

\* printValue would read a cell that was never written or a freed object
RECURSIVE Unprintable(_, _)
Unprintable(m, value) ==
    \/ Wild(m, value)
    \/ /\ IS_OBJ(value)
       /\ With(m.heap[AS_OBJ(value)], LAMBDA o :
            CASE o.type = "list" -> \E i \in 1..Len(o.values) : Unprintable(m, o.values[i])
              [] o.type = "dict" ->
                   \E i \in 1..Len(o.values.entries) :
                       /\ ~IS_EMPTY(o.values.entries[i].key)
                       /\ \/ Unprintable(m, o.values.entries[i].key)
                          \/ Unprintable(m, o.values.entries[i].value)
              [] o.type = "instance" -> Dangling(m, o.klass) \/ Dangling(m, m.heap[o.klass].name)
              [] o.type = "class" -> Dangling(m, o.name)
              [] o.type = "closure" ->
                   Dangling(m, o.function) \/ Dangling(m, m.heap[o.function].name)
              [] o.type = "boundMethod" ->
                   \/ Dangling(m, o.method) \/ Dangling(m, m.heap[o.method].function)
                   \/ Dangling(m, m.heap[m.heap[o.method].function].name)
              [] OTHER -> FALSE)

\* run is in its loop: interpret has called it and it has not returned
Running(m) ==
    ~m.ub /\ m.parser.calls # <<>> /\ Top(m).fn = "interpret" /\ Top(m).at = 2

\* the end of one turn of the loop: a handler that failed has returned
\* INTERPRET_RUNTIME_ERROR, and so does the test of vm->kill after the switch
Finish(r) ==
    IF r.m.ub \/ r.m.parser.calls = <<>> THEN r.m
    ELSE IF ~r.ok \/ r.m.kill THEN ReturnValue(r.m, "INTERPRET_RUNTIME_ERROR")
    ELSE r.m

\* the machine moves on; interpret's return value is the result of the run
Step(next) ==
    /\ vm' = next
    /\ result' = IF next.parser.calls = <<>> /\ ~next.ub THEN next.parser.ret ELSE result
    /\ UNCHANGED <<program, table>>

Dispatch(op, Body(_)) ==
    /\ Running(vm) /\ CanFetch(vm) /\ Byte(vm, 0) = Op(op)
    /\ Step(Finish(Body(vm)))
    /\ UNCHANGED expect

\* the local base of the running frame
Slots(m) == m.frames[m.frame].slots

OP_ADD(m) ==
    IF Wild(m, peek(m, 0)) \/ Wild(m, peek(m, 1)) THEN Crash(m)
    ELSE IF isObjType(m.heap, peek(m, 0), "string") /\ isObjType(m.heap, peek(m, 1), "string")
    THEN concatenate(m)
    ELSE IF IS_NUMBER(peek(m, 0)) /\ IS_NUMBER(peek(m, 1))
    THEN PushOrFail(pop(pop(m)), NUMBER_VAL(doubleAdd(AS_NUMBER(peek(m, 1)), AS_NUMBER(peek(m, 0)))))
    ELSE Fail(runtimeError(m, "Operands must be two numbers or two strings."))

OP_NEXT_JUMP(m) ==
    IF Wild(m, peek(m, 0)) \/ ~IS_NUMBER(peek(m, 0)) \/ Wild(m, peek(m, 1)) THEN Crash(m)
    ELSE IF ~IS_OBJ(peek(m, 1)) \/ OBJ_TYPE(m, peek(m, 1)) \notin {"list", "string"}
    THEN Fail(runtimeError(pop(Skip(m, 3)), "Can only iterate list or string."))
    ELSE With(PushOrFail(pop(Skip(m, 3)), NUMBER_VAL(AS_NUMBER(peek(m, 0)) + 1)), LAMBDA pushed :
             IF ~pushed.ok THEN pushed
             ELSE With(rawGetIndex(pushed.m, peek(m, 1), AS_NUMBER(peek(m, 0))), LAMBDA got :
                      IF got.m.ub THEN got
                      ELSE Ok(IF got.ok THEN got.m ELSE Skip(got.m, READ_SHORT(m)))))

OP_CLOSURE(m) ==
    With(AS_OBJ(READ_CONSTANT(m, 1)), LAMBDA fn :
    With(newClosure(Skip(m, 2 + 2 * m.heap[fn].upvalueCount), fn), LAMBDA made :
        IF made.m.ub THEN Crash(made.m)
        ELSE With(PushOrFail(made.m, OBJ_VAL(made.ref)), LAMBDA pushed :
                 IF ~pushed.ok THEN pushed
                 ELSE With(fillUpvalues(m, pushed.m, made.ref, 0), LAMBDA m1 :
                          IF m1.ub THEN Crash(m1) ELSE Ok(m1)))))

OP_RETURN(m) ==
    With([closeUpvalues(pop(m), Slots(m)) EXCEPT !.frameCount = @ - 1], LAMBDA m1 :
        IF m1.frameCount = 0 THEN Ok(ReturnValue(pop(m1), "INTERPRET_OK"))
        ELSE Reframe(PushOrFail([m1 EXCEPT !.stackTop = Slots(m)], peek(m, 0))))

\* OP_DIVIDE is followed where the quotient is a whole number or NAN
Whole(m) ==
    Running(m) /\ CanFetch(m) /\ IS_NUMBER(peek(m, 0)) /\ IS_NUMBER(peek(m, 1))
        => With(AS_NUMBER(peek(m, 1)), LAMBDA a : With(AS_NUMBER(peek(m, 0)), LAMBDA b :
               IF isnan(a) \/ isnan(b) THEN TRUE
               ELSE IF b = 0 THEN a = 0
               ELSE quotient(a, b) * b = a))

\* one turn of the loop of run, by the instruction fetched
run ==
    \/ Dispatch("OP_CONSTANT", LAMBDA m : PushOrFail(Skip(m, 2), READ_CONSTANT(m, 1)))
    \/ Dispatch("OP_NIL", LAMBDA m : PushOrFail(Skip(m, 1), NIL_VAL))
    \/ Dispatch("OP_TRUE", LAMBDA m : PushOrFail(Skip(m, 1), BOOL_VAL(TRUE)))
    \/ Dispatch("OP_FALSE", LAMBDA m : PushOrFail(Skip(m, 1), BOOL_VAL(FALSE)))
    \/ Dispatch("OP_INT", LAMBDA m : PushOrFail(Skip(m, 2), NUMBER_VAL(Byte(m, 1))))
    \/ Dispatch("OP_LIST", LAMBDA m :
           With(newList(Skip(m, 2)), LAMBDA made :
           With(fillList(made.m, made.ref, made.m.stackTop - Byte(m, 1)), LAMBDA m1 :
               IF m1.ub THEN Crash(m1)
               ELSE PushOrFail([m1 EXCEPT !.stackTop = @ - Byte(m, 1)], OBJ_VAL(made.ref)))))
    \/ Dispatch("OP_DICT", LAMBDA m :
           With(newDict(Skip(m, 2)), LAMBDA made :
           With(fillDict(made.m, made.ref, made.m.stackTop - 2 * Byte(m, 1)), LAMBDA m1 :
               IF m1.ub THEN Crash(m1)
               ELSE PushOrFail([m1 EXCEPT !.stackTop = @ - 2 * Byte(m, 1)],
                               OBJ_VAL(made.ref)))))
    \/ Dispatch("OP_POP", LAMBDA m : Ok(pop(Skip(m, 1))))
    \/ Dispatch("OP_GET_LOCAL", LAMBDA m :
           PushOrFail(Skip(m, 2), Slot(m, Slots(m) + Byte(m, 1))))
    \/ Dispatch("OP_SET_LOCAL", LAMBDA m :
           Ok(SetSlot(Skip(m, 2), Slots(m) + Byte(m, 1), peek(m, 0))))
    \/ Dispatch("OP_GET_GLOBAL", LAMBDA m :
           With(vmTableGet(Skip(m, 2), <<NULL, "globals">>, READ_CONSTANT(m, 1)), LAMBDA get :
               IF ~get.found THEN Fail(runtimeError(get.m, "Undefined variable '%s'."))
               ELSE PushOrFail(get.m, get.value)))
    \/ Dispatch("OP_DEFINE_GLOBAL", LAMBDA m :
           With(vmTableSet(pop(Skip(m, 2)), <<NULL, "globals">>, READ_CONSTANT(m, 1),
                           peek(m, 0)).m, LAMBDA m1 :
               IF m1.ub THEN Crash(m1) ELSE Ok(m1)))
    \/ Dispatch("OP_SET_GLOBAL", LAMBDA m :
           With(vmTableSet(Skip(m, 2), <<NULL, "globals">>, READ_CONSTANT(m, 1), peek(m, 0)),
                LAMBDA set :
               IF set.m.ub THEN Crash(set.m)
               ELSE IF set.isNewKey
               THEN Fail(runtimeError(vmTableDelete(set.m, <<NULL, "globals">>,
                                                    READ_CONSTANT(m, 1)),
                                      "Undefined variable '%s'."))
               ELSE Ok(set.m)))
    \/ Dispatch("OP_GET_UPVALUE", LAMBDA m :
           IF Dangling(m, Upvalue(m)) THEN Crash(m)
           ELSE PushOrFail(Skip(m, 2), readUpvalue(m, Upvalue(m))))
    \/ Dispatch("OP_SET_UPVALUE", LAMBDA m :
           IF Dangling(m, Upvalue(m)) THEN Crash(m)
           ELSE Ok(writeUpvalue(Skip(m, 2), Upvalue(m), peek(m, 0))))
    \/ Dispatch("OP_GET_PROPERTY", LAMBDA m :
           getProperty(Skip(m, 2), peek(m, 0), READ_STRING(m, 1)))
    \/ Dispatch("OP_SET_PROPERTY", LAMBDA m :
           setProperty(Skip(m, 2), peek(m, 1), READ_STRING(m, 1), peek(m, 0)))
    \/ Dispatch("OP_GET_SUPER", LAMBDA m :
           IF NotA(m, peek(m, 0), "class") THEN Crash(m)
           ELSE bindMethod(pop(Skip(m, 2)), AS_OBJ(peek(m, 0)), READ_STRING(m, 1)))
    \/ Dispatch("OP_GET_INDEX", LAMBDA m :
           getIndex(pop(pop(Skip(m, 1))), peek(m, 1), peek(m, 0)))
    \/ Dispatch("OP_SET_INDEX", LAMBDA m :
           With(PushOrFail(pop(pop(pop(Skip(m, 1)))), peek(m, 0)), LAMBDA pushed :
               IF ~pushed.ok THEN pushed
               ELSE setIndex(pushed.m, peek(m, 2), peek(m, 1), peek(m, 0))))
    \/ Dispatch("OP_EQUAL", LAMBDA m :
           PushOrFail(pop(pop(Skip(m, 1))), BOOL_VAL(valuesEqual(peek(m, 1), peek(m, 0)))))
    \/ Dispatch("OP_GREATER", LAMBDA m :
           BINARY_OP(Skip(m, 1), BOOL_VAL, doubleGreater))
    \/ Dispatch("OP_LESS", LAMBDA m :
           BINARY_OP(Skip(m, 1), BOOL_VAL, doubleLess))
    \/ Dispatch("OP_ADD", LAMBDA m : OP_ADD(Skip(m, 1)))
    \/ Dispatch("OP_SUBTRACT", LAMBDA m :
           BINARY_OP(Skip(m, 1), NUMBER_VAL, doubleSubtract))
    \/ Dispatch("OP_MULTIPLY", LAMBDA m :
           BINARY_OP(Skip(m, 1), NUMBER_VAL, doubleMultiply))
    \/ /\ Whole(vm)
       /\ Dispatch("OP_DIVIDE", LAMBDA m : BINARY_OP(Skip(m, 1), NUMBER_VAL, quotient))
    \/ Dispatch("OP_NOT", LAMBDA m :
           IF Wild(m, peek(m, 0)) THEN Crash(m)
           ELSE PushOrFail(pop(Skip(m, 1)), BOOL_VAL(isFalsey(peek(m, 0)))))
    \/ Dispatch("OP_NEGATE", LAMBDA m :
           IF Wild(m, peek(m, 0)) THEN Crash(m)
           ELSE IF ~IS_NUMBER(peek(m, 0))
           THEN Fail(runtimeError(Skip(m, 1), "Operand must be a number."))
           ELSE PushOrFail(pop(Skip(m, 1)), NUMBER_VAL(doubleNegate(AS_NUMBER(peek(m, 0))))))
    \/ Dispatch("OP_PRINT", LAMBDA m :
           IF Unprintable(m, peek(m, 0)) THEN Crash(m)
           ELSE Ok([Skip(m, 1) EXCEPT !.stdout =
                        Append(@, printValue(m.heap, peek(m, 0)))]))
    \/ Dispatch("OP_JUMP", LAMBDA m : Ok(Skip(m, 3 + READ_SHORT(m))))
    \/ Dispatch("OP_JUMP_IF_FALSE", LAMBDA m :
           IF Wild(m, peek(m, 0)) THEN Crash(m)
           ELSE Ok(Skip(m, 3 + (IF isFalsey(peek(m, 0)) THEN READ_SHORT(m) ELSE 0))))
    \/ Dispatch("OP_NEXT_JUMP", OP_NEXT_JUMP)
    \/ Dispatch("OP_LOOP", LAMBDA m : Ok(Skip(m, 3 - READ_SHORT(m))))
    \/ Dispatch("OP_CALL", LAMBDA m :
           Reframe(callValue(Skip(m, 2), peek(m, Byte(m, 1)), Byte(m, 1))))
    \/ Dispatch("OP_INVOKE", LAMBDA m :
           Reframe(invoke(Skip(m, 3), READ_STRING(m, 1), Byte(m, 2))))
    \/ Dispatch("OP_SUPER_INVOKE", LAMBDA m :
           IF NotA(m, peek(m, 0), "class") THEN Crash(m)
           ELSE Reframe(invokeFromClass(pop(Skip(m, 3)), AS_OBJ(peek(m, 0)),
                                        READ_STRING(m, 1), Byte(m, 2))))
    \/ Dispatch("OP_CLOSURE", OP_CLOSURE)
    \/ Dispatch("OP_CLOSE_UPVALUE", LAMBDA m :
           Ok(pop(closeUpvalues(Skip(m, 1), m.stackTop - 1))))
    \/ Dispatch("OP_RETURN", OP_RETURN)
    \/ Dispatch("OP_CLASS", LAMBDA m :
           With(newClass(Skip(m, 2), READ_STRING(m, 1)), LAMBDA made :
               IF made.m.ub THEN Crash(made.m)
               ELSE PushOrFail(made.m, OBJ_VAL(made.ref))))
    \/ Dispatch("OP_INHERIT", LAMBDA m :
           IF Wild(m, peek(m, 1)) \/ NotA(m, peek(m, 0), "class") THEN Crash(m)
           ELSE IF ~isObjType(m.heap, peek(m, 1), "class")
           THEN Fail(runtimeError(Skip(m, 1), "Superclass must be a class."))
           ELSE With(tableAddAll(Skip(m, 1), <<AS_OBJ(peek(m, 1)), "methods">>,
                                 <<AS_OBJ(peek(m, 0)), "methods">>), LAMBDA m1 :
                    IF m1.ub THEN Crash(m1) ELSE Ok(pop(m1))))
    \/ Dispatch("OP_METHOD", LAMBDA m :
           With(defineMethod(Skip(m, 2), READ_STRING(m, 1)), LAMBDA m1 :
               IF m1.ub THEN Crash(m1) ELSE Ok(m1)))

(***************************************************************************)
(* The programs interpret is given, each as the lexemes the scanner hands  *)
(* to the compiler, with the lines the language has it print.              *)
(***************************************************************************)
Programs == <<
    \* a global is defined, assigned and read
    [name |-> "globals",
     source |-> <<"var", "x", "=", "2", ";", "print", "x", ";", "x", "=", "x", "+", "3", ";",
                 "print", "x", ";">>,
     stdout |-> <<Chars("2"), Chars("5")>>],
    \* operators, grouping, literals, and/or, a string index
    [name |-> "arithmetic",
     source |-> <<"print", "(", "1", "+", "2", ")", "*", "3", ";", "print", "8", "/", "2", "-",
                 "1", ";", "print", "not", "(", "1", "==", "2", ")", ";", "print", "1", "<",
                 "2", "and", "2", ">", "1", ";", "print", "false", "or", "-", "1", ";", "print",
                 "\"ab\"", "[", "1", "]", ";", "print", "nil", "==", "true", ";">>,
     stdout |-> <<Chars("9"), Chars("3"), Chars("true"), Chars("true"), Chars("-1"), Chars("b"), Chars("false")>>],
    \* a local declared in a block that is an operand of a larger expression
    [name |-> "nested",
     source |-> <<"print", "1", "+", "{", "var", "x", "=", "2", ";", "print", "x", ";", "0", "}",
                 ";">>,
     stdout |-> <<Chars("2"), Chars("1")>>],
    \* a closure over a local of a function that has returned
    [name |-> "counter",
     source |-> <<"func", "make", "(", ")", "{", "var", "n", "=", "0", ";", "func", "inc", "(",
                 ")", "{", "n", "=", "n", "+", "1", ";", "return", "n", ";", "}", "n", "=", "1",
                 ";", "return", "inc", ";", "}", "var", "c", "=", "make", "(", ")", ";",
                 "print", "c", "(", ")", ";", "print", "c", "(", ")", ";", "print", "c", "(",
                 ")", ";">>,
     stdout |-> <<Chars("2"), Chars("3"), Chars("4")>>],
    \* for over a string, if without else, while
    [name |-> "loops",
     source |-> <<"for", "c", "in", "\"ab\"", "{", "print", "c", ";", "}", "if", "false", "{",
                 "print", "1", ";", "}", "var", "i", "=", "0", ";", "while", "i", "<", "2", "{",
                 "i", "=", "i", "+", "1", ";", "print", "i", ";", "}", "print", "9", ";">>,
     stdout |-> <<Chars("a"), Chars("b"), Chars("1"), Chars("2"), Chars("9")>>],
    \* methods, an initializer, this, and a method inherited or redefined
    [name |-> "classes",
     source |-> <<"class", "A", "{", "init", "(", "v", ")", "{", "this", ".", "v", "=", "v", ";",
                 "}", "get", "(", ")", "{", "return", "this", ".", "v", ";", "}", "n", "(", ")",
                 "{", "return", "1", ";", "}", "}", "class", "B", "<", "A", "{", "get", "(",
                 ")", "{", "return", "7", ";", "}", "}", "var", "b", "=", "B", "(", "3", ")",
                 ";", "print", "b", ".", "get", "(", ")", ";", "print", "b", ".", "n", "(", ")",
                 ";", "print", "b", ".", "v", ";", "print", "A", "(", "5", ")", ".", "get", "(",
                 ")", ";">>,
     stdout |-> <<Chars("7"), Chars("1"), Chars("3"), Chars("5")>>],
    \* a method and a property reached through super
    [name |-> "super",
     source |-> <<"class", "A", "{", "get", "(", ")", "{", "return", "3", ";", "}", "n", "(",
                 ")", "{", "return", "1", ";", "}", "}", "class", "B", "<", "A", "{", "get",
                 "(", ")", "{", "return", "super", ".", "get", "(", ")", "+", "1", ";", "}",
                 "m", "(", ")", "{", "var", "g", "=", "super", ".", "n", ";", "return", "g",
                 "(", ")", ";", "}", "}", "var", "b", "=", "B", "(", ")", ";", "print", "b",
                 ".", "m", "(", ")", ";", "print", "b", ".", "get", "(", ")", ";">>,
     stdout |-> <<Chars("1"), Chars("4")>>],
    \* an instance with a field and a method of one name
    [name |-> "shadow",
     source |-> <<"class", "K", "{", "n", "(", ")", "{", "return", "1", ";", "}", "}", "func",
                 "f", "(", ")", "{", "return", "2", ";", "}", "var", "k", "=", "K", "(", ")",
                 ";", "k", ".", "n", "=", "f", ";", "print", "k", ".", "n", "(", ")", ";",
                 "var", "g", "=", "k", ".", "n", ";", "print", "g", "(", ")", ";", "print", "k",
                 ".", "n", "==", "f", ";">>,
     stdout |-> <<Chars("2"), Chars("2"), Chars("true")>>],
    \* a list is built, indexed, assigned and appended to
    [name |-> "lists",
     source |-> <<"var", "l", "=", "[", "1", ",", "2", "]", ";", "l", "[", "0", "]", "=", "5",
                 ";", "print", "l", "[", "0", "]", ";", "l", ".", "append", "(", "7", ")", ";",
                 "print", "l", ".", "length", "(", ")", ";", "print", "l", ";">>,
     stdout |-> <<Chars("5"), Chars("3"), Chars("[5, 2, 7]")>>],
    \* a value held only by a dict, read after later allocations
    [name |-> "dicts",
     source |-> <<"func", "f", "(", ")", "{", "var", "d", "=", "dict", "{", "}", ";", "d", "[",
                 "1", "]", "=", "\"a\"", "+", "\"b\"", ";", "return", "d", ";", "}", "var", "d",
                 "=", "f", "(", ")", ";", "var", "s", "=", "\"c\"", "+", "\"d\"", ";", "print",
                 "d", "[", "1", "]", ";", "var", "e", "=", "dict", "{", "2", "=>", "3", "}",
                 ";", "e", "[", "2", "]", "=", "4", ";", "print", "e", "[", "2", "]", ";">>,
     stdout |-> <<Chars("ab"), Chars("4")>>],
    \* two locals captured in both orders, and a captured local of a block
    [name |-> "upvalues",
     source |-> <<"func", "outer", "(", ")", "{", "var", "a", "=", "1", ";", "var", "b", "=",
                 "2", ";", "func", "fb", "(", ")", "{", "return", "b", ";", "}", "func", "fa",
                 "(", ")", "{", "a", "=", "a", "+", "1", ";", "return", "a", ";", "}", "func",
                 "fab", "(", ")", "{", "return", "a", "+", "b", ";", "}", "return", "fab", "(",
                 ")", "+", "fa", "(", ")", "+", "fb", "(", ")", ";", "}", "print", "outer", "(",
                 ")", ";", "{", "var", "z", "=", "1", ";", "func", "g", "(", ")", "{", "return",
                 "z", ";", "}", "print", "g", "(", ")", ";", "}">>,
     stdout |-> <<Chars("7"), Chars("1")>>],
    \* a native member called with a wrong argument count
    [name |-> "member",
     source |-> <<"print", "1", ";", "print", "\"abc\"", ".", "length", "(", "1", ")", ";",
                 "print", "2", ";">>,
     stdout |-> <<Chars("1")>>],
    \* a runtime error inside a function whose local is captured
    [name |-> "negate",
     source |-> <<"func", "h", "(", ")", "{", "var", "a", "=", "1", ";", "func", "g", "(", ")",
                 "{", "return", "a", ";", "}", "return", "-", "\"s\"", ";", "}", "print", "3",
                 ";", "print", "h", "(", ")", ";", "print", "4", ";">>,
     stdout |-> <<Chars("3")>>],
    \* if with else, taken on either side, as a statement
    [name |-> "branches",
     source |-> <<"if", "1", "<", "2", "{", "print", "1", ";", "}", "else", "{", "print", "2",
                 ";", "}", "if", "nil", "==", "0", "{", "print", "3", ";", "}", "else", "{",
                 "print", "4", ";", "}", "print", "5", ";">>,
     stdout |-> <<Chars("1"), Chars("4"), Chars("5")>>],
    \* a method of the superclass called through super
    [name |-> "superCall",
     source |-> <<"class", "A", "{", "get", "(", ")", "{", "return", "3", ";", "}", "}", "class",
                 "B", "<", "A", "{", "get", "(", ")", "{", "return", "super", ".", "get", "(",
                 ")", "+", "1", ";", "}", "}", "print", "B", "(", ")", ".", "get", "(", ")", ";">>,
     stdout |-> <<Chars("4")>>],
    \* a string built twice, before and after it was collected, and a literal built at run time
    [name |-> "interning",
     source |-> <<"var", "a", "=", "\"x\"", "+", "\"y\"", ";", "a", "=", "nil", ";", "var", "b",
                 "=", "\"y\"", "+", "\"x\"", ";", "print", "\"x\"", "+", "\"y\"", "==", "\"x\"",
                 "+", "\"y\"", ";", "print", "b", "==", "\"yx\"", ";", "print", "\"x\"", "==",
                 "\"y\"", ";">>,
     stdout |-> <<Chars("true"), Chars("true"), Chars("false")>>],
    \* blocks as expressions: the last unit, an empty block, and a function body
    [name |-> "blocks",
     source |-> <<"print", "{", "1", ";", "2", "}", ";", "print", "{", "}", "==", "nil", ";",
                 "func", "inc", "(", "x", ")", "{", "x", "+", "1", "}", "print", "inc", "(",
                 "2", ")", ";">>,
     stdout |-> <<Chars("2"), Chars("true"), Chars("3")>>],
    \* a block expression that declares a local
    [name |-> "blockLocal",
     source |-> <<"print", "{", "var", "x", "=", "5", ";", "x", "+", "1", "}", ";">>,
     stdout |-> <<Chars("6")>>],
    \* if as a statement on each path: truthy and falsy, with and without else
    [name |-> "ifs",
     source |-> <<"if", "true", "{", "1", "}", "else", "{", "2", "}", "if", "false", "{", "1",
                 "}", "else", "{", "2", "}", "if", "true", "{", "3", "}", "if", "false", "{",
                 "4", "}", "print", "5", ";">>,
     stdout |-> <<Chars("5")>>],
    \* for over a list, an empty list, an empty string and a string
    [name |-> "forEach",
     source |-> <<"for", "x", "in", "[", "4", ",", "5", ",", "6", "]", "{", "print", "x", ";",
                 "}", "for", "y", "in", "[", "]", "{", "print", "0", ";", "}", "for", "z", "in",
                 "\"\"", "{", "print", "0", ";", "}", "for", "c", "in", "\"hi\"", "{", "print",
                 "c", ";", "}", "print", "9", ";">>,
     stdout |-> <<Chars("4"), Chars("5"), Chars("6"), Chars("h"), Chars("i"), Chars("9")>>],
    \* a call with fewer arguments than parameters
    [name |-> "tooFew",
     source |-> <<"func", "g", "(", "a", ")", "{", "a", "}", "print", "1", ";", "g", "(", ")",
                 ";", "print", "2", ";">>,
     stdout |-> <<Chars("1")>>],
    \* a call with more arguments than parameters
    [name |-> "tooMany",
     source |-> <<"func", "g", "(", "a", ")", "{", "a", "}", "g", "(", "1", ",", "2", ")", ";",
                 "print", "2", ";">>,
     stdout |-> <<>>],
    \* a function that calls itself without end
    [name |-> "recursion",
     source |-> <<"func", "f", "(", ")", "{", "f", "(", ")", "}", "f", "(", ")", ";", "print",
                 "2", ";">>,
     stdout |-> <<>>],
    \* classes called with and without an initializer
    [name |-> "construct",
     source |-> <<"class", "P", "{", "init", "(", "v", ")", "{", "this", ".", "v", "=", "v", ";",
                 "9", "}", "}", "var", "p", "=", "P", "(", "3", ")", ";", "print", "p", ".",
                 "v", ";", "print", "p", ";", "class", "R", "{", "init", "(", ")", "{",
                 "return", ";", "}", "}", "print", "R", "(", ")", ";", "class", "Q", "{", "}",
                 "print", "Q", "(", ")", ";">>,
     stdout |-> <<Chars("3"), Chars("P instance"), Chars("R instance"), Chars("Q instance")>>],
    \* a class without an initializer called with an argument
    [name |-> "noInit",
     source |-> <<"class", "Q", "{", "}", "print", "1", ";", "Q", "(", "7", ")", ";", "print",
                 "2", ";">>,
     stdout |-> <<Chars("1")>>],
    \* an index read on a number
    [name |-> "indexNumber",
     source |-> <<"var", "n", "=", "5", ";", "print", "n", "[", "0", "]", ";">>,
     stdout |-> <<>>],
    \* an index write on nil
    [name |-> "indexNil",
     source |-> <<"var", "n", "=", "nil", ";", "n", "[", "0", "]", "=", "1", ";">>,
     stdout |-> <<>>],
    \* an index read on a function
    [name |-> "indexFunc",
     source |-> <<"func", "f", "(", ")", "{", "}", "print", "f", "[", "0", "]", ";">>,
     stdout |-> <<>>],
    \* an index write past the end of a list
    [name |-> "listRange",
     source |-> <<"var", "l", "=", "[", "1", "]", ";", "l", "[", "1", "]", "=", "2", ";">>,
     stdout |-> <<>>],
    \* a string indexed by a string
    [name |-> "strKey",
     source |-> <<"print", "\"ab\"", "[", "\"x\"", "]", ";">>,
     stdout |-> <<>>],
    \* an index write on a string
    [name |-> "strAssign",
     source |-> <<"var", "s", "=", "\"ab\"", ";", "s", "[", "0", "]", "=", "\"c\"", ";">>,
     stdout |-> <<>>],
    \* a function as the key of an index write on a dict
    [name |-> "unhashSet",
     source |-> <<"func", "f", "(", ")", "{", "}", "var", "d", "=", "dict", "{", "}", ";", "d",
                 "[", "f", "]", "=", "2", ";", "print", "1", ";">>,
     stdout |-> <<>>],
    \* a function as the key of an index read on a dict
    [name |-> "unhashGet",
     source |-> <<"func", "f", "(", ")", "{", "}", "var", "d", "=", "dict", "{", "1", "=>", "2",
                 "}", ";", "print", "d", "[", "f", "]", ";">>,
     stdout |-> <<>>],
    \* a function as a key of a dict literal
    [name |-> "unhashLit",
     source |-> <<"func", "f", "(", ")", "{", "}", "var", "d", "=", "dict", "{", "f", "=>", "2",
                 "}", ";", "print", "1", ";">>,
     stdout |-> <<>>],
    \* statements that compile followed by one that does not
    [name |-> "lateError",
     source |-> <<"var", "x", "=", "2", ";", "print", "x", ";", "func", "f", "(", ")", "{",
                 "print", "3", ";", "}", "f", "(", ")", ";", "print", ";">>,
     stdout |-> <<>>],
    \* a return outside any function
    [name |-> "returnTop",
     source |-> <<"print", "1", ";", "return", "2", ";", "print", "3", ";">>,
     stdout |-> <<>>],
    \* a subclass that keeps, redefines and adds methods
    [name |-> "inherit",
     source |-> <<"class", "A", "{", "a", "(", ")", "{", "return", "1", ";", "}", "b", "(", ")",
                 "{", "return", "2", ";", "}", "}", "class", "B", "<", "A", "{", "b", "(", ")",
                 "{", "return", "3", ";", "}", "c", "(", ")", "{", "return", "4", ";", "}", "}",
                 "var", "x", "=", "B", "(", ")", ";", "print", "x", ".", "a", "(", ")", ";",
                 "print", "x", ".", "b", "(", ")", ";", "print", "x", ".", "c", "(", ")", ";",
                 "print", "A", "(", ")", ".", "b", "(", ")", ";">>,
     stdout |-> <<Chars("1"), Chars("3"), Chars("4"), Chars("2")>>],
    \* append on a list of three, then length
    [name |-> "append",
     source |-> <<"var", "xs", "=", "[", "1", ",", "2", ",", "3", "]", ";", "print", "xs", ".",
                 "append", "(", "4", ")", ";", "print", "xs", ".", "length", "(", ")", ";",
                 "print", "xs", "[", "3", "]", ";", "print", "xs", ";">>,
     stdout |-> <<Chars("4"), Chars("4"), Chars("4"), Chars("[1, 2, 3, 4]")>>],
    \* the length member of a list read without a call
    [name |-> "lengthMember",
     source |-> <<"var", "xs", "=", "[", "1", ",", "2", ",", "3", "]", ";", "xs", ".", "append",
                 "(", "4", ")", ";", "print", "xs", ".", "length", ";", "print", "xs", "[", "3",
                 "]", ";">>,
     stdout |-> <<Chars("4"), Chars("4")>>],
    \* append on an empty list, twice, then length
    [name |-> "appendEmpty",
     source |-> <<"var", "e", "=", "[", "]", ";", "print", "e", ".", "length", "(", ")", ";",
                 "print", "e", ".", "append", "(", "\"s\"", ")", ";", "print", "e", ".",
                 "append", "(", "2", ")", ";", "print", "e", ".", "length", "(", ")", ";",
                 "print", "e", "[", "0", "]", ";", "print", "e", "[", "1", "]", ";">>,
     stdout |-> <<Chars("0"), Chars("s"), Chars("2"), Chars("2"), Chars("s"), Chars("2")>>],
    \* a number that is not equal to itself
    [name |-> "nan",
     source |-> <<"var", "n", "=", "0", "/", "0", ";", "print", "n", "==", "n", ";", "print",
                 "n", "==", "0", ";", "print", "n", "<", "1", ";", "print", "n", "+", "1", "==",
                 "n", "+", "1", ";", "var", "z", "=", "0", ";", "print", "z", "==", "z", ";",
                 "print", "nil", "==", "nil", ";", "print", "true", "==", "true", ";", "var",
                 "f", "=", "\"s\"", ";", "print", "f", "==", "f", ";", "print", "n", ";">>,
     stdout |-> <<Chars("false"), Chars("false"), Chars("false"), Chars("false"), Chars("true"), Chars("true"), Chars("true"), Chars("true"), Chars("-nan")>>],
    \* not, and, or and if on values of every kind
    [name |-> "truth",
     source |-> <<"func", "g", "(", ")", "{", "}", "print", "not", "false", ";", "print", "not",
                 "0", ";", "print", "not", "nil", ";", "print", "not", "1", ";", "print", "not",
                 "-", "1", ";", "print", "not", "\"\"", ";", "print", "not", "[", "]", ";",
                 "print", "not", "dict", "{", "}", ";", "print", "not", "g", ";", "print",
                 "nil", "and", "2", ";", "print", "0", "and", "2", ";", "print", "false", "and",
                 "2", ";", "print", "false", "or", "3", ";", "print", "\"s\"", "or", "3", ";",
                 "print", "0", "or", "4", ";", "if", "nil", "{", "print", "7", ";", "}", "else",
                 "{", "print", "8", ";", "}", "if", "0", "{", "print", "7", ";", "}", "else",
                 "{", "print", "8", ";", "}">>,
     stdout |-> <<Chars("true"), Chars("true"), Chars("false"), Chars("false"), Chars("false"), Chars("false"), Chars("false"), Chars("false"), Chars("false"), Chars("2"), Chars("0"), Chars("false"), Chars("3"), Chars("s"), Chars("4"), Chars("7"), Chars("8")>>],
    \* a closure of an open upvalue kept in a global, and a runtime error in the function that holds the variable
    [name |-> "strayUpvalue",
     source |-> <<"var", "g", ";", "func", "f", "(", ")", "{", "var", "x", "=", "1", ";", "func",
                 "h", "(", ")", "{", "return", "x", ";", "}", "g", "=", "h", ";", "x", "(", ")",
                 ";", "}", "f", "(", ")", ";">>,
     stdout |-> <<>>],
    \* a method read as a property and called later
    [name |-> "boundMethod",
     source |-> <<"class", "A", "{", "get", "(", ")", "{", "return", "3", ";", "}", "}", "var",
                 "a", "=", "A", "(", ")", ";", "var", "f", "=", "a", ".", "get", ";", "print",
                 "f", "(", ")", ";">>,
     stdout |-> <<Chars("3")>>],
    \* a method invoked on a number
    [name |-> "invokeNumber",
     source |-> <<"var", "n", "=", "1", ";", "n", ".", "length", "(", ")", ";", "print", "2", ";">>,
     stdout |-> <<>>],
    \* a method invoked on nil
    [name |-> "invokeNil",
     source |-> <<"var", "n", "=", "nil", ";", "n", ".", "length", "(", ")", ";", "print", "2",
                 ";">>,
     stdout |-> <<>>],
    \* a method invoked on a function
    [name |-> "invokeFunc",
     source |-> <<"func", "f", "(", ")", "{", "}", "f", ".", "length", "(", ")", ";", "print",
                 "2", ";">>,
     stdout |-> <<>>],
    \* a method invoked on a native
    [name |-> "invokeNative",
     source |-> <<"clock", ".", "length", "(", ")", ";", "print", "2", ";">>,
     stdout |-> <<>>],
    \* a method invoked on a class
    [name |-> "invokeClass",
     source |-> <<"class", "A", "{", "}", "A", ".", "length", "(", ")", ";", "print", "2", ";">>,
     stdout |-> <<>>],
    \* a method invoked on a boolean
    [name |-> "invokeTrue",
     source |-> <<"var", "b", "=", "true", ";", "b", ".", "length", "(", ")", ";", "print", "2",
                 ";">>,
     stdout |-> <<>>],
    \* a block whose local is captured by a closure that outlives the block
    [name |-> "blockCapture",
     source |-> <<"var", "g", ";", "{", "var", "x", "=", "1", ";", "func", "h", "(", ")", "{",
                 "x", "=", "x", "+", "1", ";", "return", "x", ";", "}", "g", "=", "h", ";", "}",
                 "print", "g", "(", ")", ";", "print", "g", "(", ")", ";">>,
     stdout |-> <<Chars("2"), Chars("3")>>],
    \* the definition of a function grows the globals table
    [name |-> "globalGrows",
     source |-> <<"var", "a", "=", "1", ";", "var", "b", "=", "2", ";", "var", "c", "=", "3",
                 ";", "var", "d", "=", "4", ";", "func", "f", "(", ")", "{", "return", "5", ";",
                 "}", "print", "f", "(", ")", ";">>,
     stdout |-> <<Chars("5")>>],
    \* a variable whose name begins the word dict, before a brace
    [name |-> "prefixBrace",
     source |-> <<"var", "di", "=", "true", ";", "if", "di", "{", "print", "1", ";", "}">>,
     stdout |-> <<Chars("1")>>],
    \* a variable whose name begins with the word dict, before a brace
    [name |-> "longBrace",
     source |-> <<"var", "dicts", "=", "true", ";", "if", "dicts", "{", "print", "1", ";", "}">>,
     stdout |-> <<Chars("1")>>],
    \* two closures capture one local, which is assigned through a closure and directly, before and after it is closed
    [name |-> "shared",
     source |-> <<"var", "get", ";", "var", "set", ";", "func", "make", "(", ")", "{", "var",
                 "n", "=", "1", ";", "func", "g", "(", ")", "{", "return", "n", ";", "}",
                 "func", "s", "(", "v", ")", "{", "n", "=", "v", ";", "}", "get", "=", "g", ";",
                 "set", "=", "s", ";", "s", "(", "2", ")", ";", "print", "g", "(", ")", ";",
                 "print", "n", ";", "n", "=", "3", ";", "print", "g", "(", ")", ";", "}",
                 "make", "(", ")", ";", "print", "get", "(", ")", ";", "set", "(", "4", ")",
                 ";", "print", "get", "(", ")", ";">>,
     stdout |-> <<Chars("2"), Chars("2"), Chars("3"), Chars("3"), Chars("4")>>],
    \* a program that does not compile
    [name |-> "syntax",
     source |-> <<"print", ";", "print", "1", ";">>,
     stdout |-> <<>>]
    >>

\* a: source; point 2 is the call of run
interpret(m, f) ==
    CASE f.at = 0 -> Call(m, 1, Frame("compile", f.a, 0))
      [] f.at = 1 ->
             IF m.parser.ret = NULL THEN ReturnValue(m, "INTERPRET_COMPILE_ERROR")
             ELSE With(PushOrFail(m, OBJ_VAL(m.parser.ret)), LAMBDA pushed :
                  IF ~pushed.ok THEN ReturnValue(pushed.m, "INTERPRET_RUNTIME_ERROR")
                  ELSE With(newClosure(pushed.m, m.parser.ret), LAMBDA closure :
                       IF closure.m.ub THEN closure.m
                       ELSE With(PushOrFail(pop(closure.m), OBJ_VAL(closure.ref)), LAMBDA again :
                            IF ~again.ok THEN ReturnValue(again.m, "INTERPRET_RUNTIME_ERROR")
                            ELSE With(callClosure(again.m, closure.ref, 0).m, LAMBDA m1 :
                                     Goto([m1 EXCEPT !.frame = m1.frameCount], 2)))))

(***************************************************************************)
(* The steps of one interpret call.  A step of the compiler is the run of  *)
(* the parse function on top of the call stack up to its next call or      *)
(* return; a step of run is one instruction.  expect.marks collects the    *)
(* code offsets at which a statement of the script begins or ends.         *)
(***************************************************************************)
Parse(fn, Body(_, _)) ==
    /\ ~vm.ub /\ vm.parser.calls # <<>> /\ Top(vm).fn = fn
    /\ fn = "interpret" => Top(vm).at < 2
    /\ Step(Body(vm, Top(vm)))
    /\ expect' = IF fn = "statement" /\ Top(vm).at = 2 /\ Len(vm.parser.calls) = 3 /\ ~vm'.ub
                 THEN [expect EXCEPT !.marks = @ \cup {Count(vm')}]
                 ELSE expect

\* the instruction pointer of run points nowhere: frame is &vm->frames[-1], or
\* the closure or the function it runs has been freed
runWild ==
    /\ Running(vm) /\ ~CanFetch(vm)
    /\ Step([vm EXCEPT !.ub = TRUE])
    /\ UNCHANGED expect

Next ==
    \/ Parse("interpret", interpret)
    \/ Parse("compile", compile)
    \/ Parse("statement", statement)
    \/ Parse("expressionStatement", expressionStatement)
    \/ Parse("block", block)
    \/ Parse("blockExpr", blockExpr)
    \/ Parse("printStatement", printStatement)
    \/ Parse("returnStatement", returnStatement)
    \/ Parse("ifStatement", ifStatement)
    \/ Parse("whileStatement", whileStatement)
    \/ Parse("forStatement", forStatement)
    \/ Parse("varDeclaration", varDeclaration)
    \/ Parse("funcDeclaration", funcDeclaration)
    \/ Parse("function", function)
    \/ Parse("method", method)
    \/ Parse("classDeclaration", classDeclaration)
    \/ Parse("parsePrecedence", parsePrecedence)
    \/ Parse("argumentList", argumentList)
    \/ Parse("and_", and_)
    \/ Parse("binary", binary)
    \/ Parse("call", call)
    \/ Parse("dict", dict)
    \/ Parse("dot", dot)
    \/ Parse("grouping", grouping)
    \/ Parse("index_", index_)
    \/ Parse("list", list)
    \/ Parse("literal", literal)
    \/ Parse("number", number)
    \/ Parse("or_", or_)
    \/ Parse("string", string)
    \/ Parse("namedVariable", namedVariable)
    \/ Parse("variable", variable)
    \/ Parse("super_", super_)
    \/ Parse("this_", this_)
    \/ Parse("unary", unary)
    \/ run
    \/ runWild

\* a machine that has been constructed is handed one program of the catalog
Init ==
    /\ program \in 1..Len(Programs)
    /\ vm \in {[machine EXCEPT !.parser.calls =
                                   <<Frame("interpret", Programs[program].source, 0)>>] :
                   machine \in Machines}
    /\ result = "NONE"
    /\ table = initTable
    /\ expect = [stdout |-> Programs[program].stdout, marks |-> {0}]

Spec == Init /\ [][Next]_vars

(***************************************************************************)
(* Stack neutrality of statements.  The marks are the code offsets at      *)
(* which a top-level statement of the script ends, and the script starts   *)
(* its first statement with its closure alone on the stack.                *)
(***************************************************************************)
AtStatementEnd ==
    /\ Running(vm)
    /\ vm.frameCount = 1
    /\ vm.frame = 1
    /\ vm.frames[1].ip \in expect.marks

\* C1: in a program that compiled, each complete statement leaves the height
\* of the value stack what it was before the statement began, so between two
\* top-level statements the stack holds the closure of the script and no more.
StatementKeepsHeight == AtStatementEnd => vm.stackTop = 1

(***************************************************************************)
(* Reachability.  The references an object holds are the ones its struct   *)
(* declares (object.h): a dict holds the keys and values of its table.     *)
(***************************************************************************)
References(o) ==
    IF o.type = "dict" THEN markTable(o.values) ELSE blackenObject(o)

RECURSIVE Reachable(_, _)
Reachable(h, found) ==
    With((found \cup UNION {References(h[object]) :
                               object \in {o \in found : IsLive(h, o)}}) \ {NULL},
         LAMBDA more : IF more = found THEN found ELSE Reachable(h, more))

FromRoots(m) == Reachable(m.heap, markRoots(m) \ {NULL})

\* C2: a collection started in any state of the machine in which the objects
\* reachable from the roots are all live leaves every one of them live: it
\* frees no object that a chain of references from a root reaches, the keys
\* and values of a reachable dict and the elements of a reachable list included.
CollectKeepsReachable ==
    (~vm.ub /\ \A object \in FromRoots(vm) : IsLive(vm.heap, object))
        => \A object \in FromRoots(vm) : IsLive(collectGarbage(vm).heap, object)

(***************************************************************************)
(* Interning.                                                              *)
(***************************************************************************)
Strings(m) == {object \in 1..Len(m.heap) : IsLive(m.heap, object) /\ m.heap[object].type = "string"}

\* C3: no two distinct string objects of the heap have the same bytes, at
\* every point of compiling and running and also after collections, so two
\* string values are equal exactly when their bytes are.
StringsInterned ==
    \A a, b \in Strings(vm) :
        valuesEqual(OBJ_VAL(a), OBJ_VAL(b)) <=> vm.heap[a].chars = vm.heap[b].chars

\* "xy" was built, lost its last reference and was swept with its entry of the
\* intern table, was built again at a new address, and the next request for
\* its bytes found that object: the comparison printed true
InternedAgain ==
    /\ Programs[program].name = "interning"
    /\ vm.stressGC
    /\ vm.stdout = <<Chars("true")>>
    /\ \E a \in Strings(vm) :
           /\ vm.heap[a].chars = Chars("xy")
           /\ \E freed \in 1..(a - 1) : vm.heap[freed] = FREED

(***************************************************************************)
(* What a run prints, against the lines the language has the program       *)
(* print.                                                                  *)
(***************************************************************************)
IsPrefix(s, t) == Len(s) <= Len(t) /\ SubSeq(t, 1, Len(s)) = s

PrintsAsExpected ==
    /\ IsPrefix(vm.stdout, expect.stdout)
    /\ result \in {"NONE", "INTERPRET_OK"}
    /\ result = "INTERPRET_OK" => vm.stdout = expect.stdout

\* C4: the closure a function returned reads the last value the captured local
\* held when the function returned, an assignment made after the capture
\* included, and its reads and writes after the return act on one cell that
\* persists from call to call: the counter that starts from 1 prints 2, 3, 4.
CounterCounts ==
    (Programs[program].name = "counter" /\ ~vm.ub) => PrintsAsExpected

\* the counter was called three times and its cell, closed at the return of
\* the function that declared the local, holds 4
CounterCounted ==
    /\ Programs[program].name = "counter"
    /\ result = "INTERPRET_OK"
    /\ vm.stdout = <<Chars("2"), Chars("3"), Chars("4")>>
    /\ \E upvalue \in 1..Len(vm.heap) :
           /\ IsLive(vm.heap, upvalue)
           /\ vm.heap[upvalue].type = "upvalue"
           /\ vm.heap[upvalue].location = -1
           /\ vm.heap[upvalue].closed = NUMBER_VAL(4)

\* the programs that print what they read from variables: globals, locals of
\* blocks, functions and loops, upvalues, and a local of a block that is an
\* operand of a larger expression
ReadingPrograms == {"globals", "counter", "loops", "upvalues", "nested"}

\* C5: a read of a variable yields the value of its last assignment, whatever
\* the expression context of its declaration and of the read: every program
\* that prints its variables prints the assigned values.
ReadsYieldAssigned ==
    (Programs[program].name \in ReadingPrograms /\ ~vm.ub) => PrintsAsExpected

(***************************************************************************)
(* Runtime errors.  runtimeError writes its message to stderr; the         *)
(* compiler's messages go there too, and a program with one is not run.    *)
(***************************************************************************)
RuntimeErrorRaised == vm.stderr # <<>> /\ ~vm.parser.hadError

\* C7: once an instruction has raised a runtime error the run has stopped:
\* interpret has returned INTERPRET_RUNTIME_ERROR, no instruction is dispatched
\* any more, and the VM has no frame, an empty stack and no open upvalue.
RuntimeErrorEndsRun ==
    (RuntimeErrorRaised /\ ~vm.ub) =>
        /\ vm.parser.calls = <<>>
        /\ result = "INTERPRET_RUNTIME_ERROR"
        /\ vm.frameCount = 0
        /\ vm.stackTop = 0
        /\ vm.openUpvalues = NULL

\* a native has failed its check of the argument count (CHECK_ARGCOUNT)
NativeFailed ==
    \E i \in 1..Len(vm.stderr) : vm.stderr[i] = "%d args expected but got %d."

\* C8: when a native member of a string, list, dict or option that was called
\* through OP_INVOKE has failed, the run has ended with INTERPRET_RUNTIME_ERROR
\* and executes no further instruction.
NativeFailureEndsRun ==
    NativeFailed => (vm.parser.calls = <<>> /\ result = "INTERPRET_RUNTIME_ERROR")

(***************************************************************************)
(* The open-upvalue list driven directly: captureUpvalue and closeUpvalues *)
(* applied in any order to the slots of a stack of MaxSlots values.        *)
(* result is the upvalue the last capture returned, expect the slot it was *)
(* asked for and the open upvalue that slot had before the call.           *)
(***************************************************************************)
MaxSlots == 3

MaxUpvalues == 4

OpenUpvalues(m) == openUpvalueList(m.heap, m.openUpvalues)

OpenAt(m, slot) ==
    IF \E i \in 1..Len(OpenUpvalues(m)) : m.heap[OpenUpvalues(m)[i]].location = slot
    THEN CHOOSE upvalue \in {OpenUpvalues(m)[i] : i \in 1..Len(OpenUpvalues(m))} :
             m.heap[upvalue].location = slot
    ELSE NULL

\* the upvalues allocated so far, the ones a collection has freed included
Upvalues(m) ==
    {object \in 1..Len(m.heap) : IsLive(m.heap, object) => m.heap[object].type = "upvalue"}

InitUpvalues ==
    /\ vm \in {[initVM(stressGC, NUMBER_VAL(0), 0) EXCEPT
                   !.stack = [slot \in 1..MaxSlots |-> NUMBER_VAL(slot)],
                   !.stackTop = MaxSlots] : stressGC \in BOOLEAN}
    /\ result = NULL
    /\ program = 0
    /\ table = initTable
    /\ expect = [slot |-> -1, open |-> NULL]

CaptureUpvalue ==
    \E slot \in 0..(MaxSlots - 1) :
        /\ OpenAt(vm, slot) = NULL => Cardinality(Upvalues(vm)) < MaxUpvalues
        /\ vm' = captureUpvalue(vm, slot).m
        /\ result' = captureUpvalue(vm, slot).ref
        /\ expect' = [slot |-> slot, open |-> OpenAt(vm, slot)]
        /\ UNCHANGED <<program, table>>

CloseUpvalues ==
    \E last \in 0..(MaxSlots - 1) :
        /\ vm' = closeUpvalues(vm, last)
        /\ expect' = [slot |-> -1, open |-> NULL]
        /\ UNCHANGED <<result, program, table>>

NextUpvalues == CaptureUpvalue \/ CloseUpvalues

SpecUpvalues == InitUpvalues /\ [][NextUpvalues]_vars

\* C9: after any captures and closes the open upvalues are listed by strictly
\* descending stack slot, so no slot has two of them, and the capture of a
\* slot that had an open upvalue has returned that upvalue.
OpenUpvaluesDescend ==
    /\ \A i \in 1..Len(OpenUpvalues(vm)) :
           /\ IsLive(vm.heap, OpenUpvalues(vm)[i])
           /\ vm.heap[OpenUpvalues(vm)[i]].location >= 0
    /\ \A i \in 1..(Len(OpenUpvalues(vm)) - 1) :
           vm.heap[OpenUpvalues(vm)[i]].location > vm.heap[OpenUpvalues(vm)[i + 1]].location
    /\ expect.open # NULL => result = expect.open
    /\ expect.slot # -1 => OpenAt(vm, expect.slot) = result

\* a slot between two open upvalues was captured a second time
CapturedAgain ==
    /\ expect.open # NULL
    /\ Len(OpenUpvalues(vm)) = MaxSlots
    /\ OpenUpvalues(vm)[2] = result

(***************************************************************************)
(* Fields and methods of one name.                                         *)
(***************************************************************************)
Instances(m) == {object \in 1..Len(m.heap) : IsLive(m.heap, object) /\ m.heap[object].type = "instance"}

\* the instruction about to be dispatched resolves a name on a receiver
Resolving ==
    /\ Running(vm)
    /\ CanFetch(vm)
    /\ Byte(vm, 0) \in {Op("OP_GET_PROPERTY"), Op("OP_INVOKE")}

ResolvingKeepsFields ==
    Resolving =>
        \A instance \in Instances(vm) :
            IsLive(vm'.heap, instance) => vm'.heap[instance].fields = vm.heap[instance].fields

\* C10: on an instance with a field and a method of one name GET_PROPERTY
\* yields the field and INVOKE calls the field, unbound (the shadow program
\* prints 2, 2, true), and no GET_PROPERTY or INVOKE changes the fields table
\* of any instance.
FieldShadowsMethod ==
    /\ []((Programs[program].name = "shadow" /\ ~vm.ub) => PrintsAsExpected)
    /\ [][ResolvingKeepsFields]_vars

\* the shadow program has run: its instance has the field n, the class of the
\* instance has the method n, and the three lines are the field's
FieldShadowed ==
    /\ Programs[program].name = "shadow"
    /\ result = "INTERPRET_OK"
    /\ vm.stdout = <<Chars("2"), Chars("2"), Chars("true")>>
    /\ \E instance \in Instances(vm) :
           \E name \in Strings(vm) :
               /\ vm.heap[name].chars = Chars("n")
               /\ tableGet(vm.heap, vm.heap[instance].fields, OBJ_VAL(name)).found
               /\ tableGet(vm.heap, vm.heap[vm.heap[instance].klass].methods, OBJ_VAL(name)).found

(***************************************************************************)
(* Blocks and if as expressions.                                           *)
(***************************************************************************)
\* the programs that print the value of a block: blocks without locals, an
\* empty block, a function body that ends in an expression, and a block that
\* declares a local
BlockPrograms == {"blocks", "blockLocal"}

\* C11: a block evaluates to its last unit when that unit is an expression
\* without `;`, whether or not the block declares locals, an empty block to
\* nil, and a function whose body ends so returns that value: the programs
\* that print such values print them.
BlockYieldsLastUnit ==
    (Programs[program].name \in BlockPrograms /\ ~vm.ub) => PrintsAsExpected

\* C12: an if expression leaves exactly one value in place of its condition
\* on every path, so an if statement, which pops that value, leaves the stack
\* as it found it: truthy or falsy, with or without else.
IfLeavesOneValue ==
    (Programs[program].name = "ifs" /\ AtStatementEnd) => vm.stackTop = 1

ForPrograms == {"loops", "forEach"}

CallRefused ==
    [tooFew |-> "Expected 1 arguments but got 0.",
     tooMany |-> "Expected 1 arguments but got 2.",
     recursion |-> "Stack overflow."]

\* The step of a refused call: the one message, no frame more than before,
\* the run over with a runtime error, and for the overflow FRAMES_MAX frames
\* active when the call was made.
CallRefusal ==
    (/\ Programs[program].name \in DOMAIN CallRefused
     /\ ~vm'.ub
     /\ vm'.stderr # vm.stderr)
    => /\ vm'.stderr = <<CallRefused[Programs[program].name]>>
       /\ vm'.frameCount <= vm.frameCount
       /\ result' = "INTERPRET_RUNTIME_ERROR"
       /\ vm'.stdout = expect.stdout
       /\ Programs[program].name = "recursion" <=> vm.frameCount = FRAMES_MAX

\* C14: a closure called with a number of arguments other than its arity
\* raises "Expected <arity> arguments but got <argc>." and gets no frame; a
\* closure called while FRAMES_MAX frames are active raises "Stack overflow.";
\* so the number of active frames never exceeds FRAMES_MAX.
CallsAreChecked ==
    /\ [](vm.frameCount <= FRAMES_MAX)
    /\ []((Programs[program].name \in DOMAIN CallRefused /\ ~vm.ub)
            => result # "INTERPRET_OK")
    /\ [][CallRefusal]_vars

FramesFull ==
    /\ Programs[program].name = "recursion"
    /\ ~vm.ub
    /\ vm.stderr = <<"Stack overflow.">>
    /\ result = "INTERPRET_RUNTIME_ERROR"

(***************************************************************************)
(* Calling a class.                                                        *)
(***************************************************************************)
ConstructPrograms == {"classes", "construct", "shadow"}

\* the instruction about to be dispatched calls a class
Constructing ==
    /\ Running(vm)
    /\ ~vm.ub
    /\ CanFetch(vm)
    /\ Byte(vm, 0) = Op("OP_CALL")
    /\ IS_OBJ(Slot(vm, vm.stackTop - 1 - Byte(vm, 1)))
    /\ OBJ_TYPE(vm, Slot(vm, vm.stackTop - 1 - Byte(vm, 1))) = "class"

\* What the call of a class does in one step: without an initializer and with
\* arguments the error, otherwise a fresh instance of the class in the slot of
\* the callee and, with an initializer, its frame on that slot.
Constructs ==
    (Constructing /\ ~vm'.ub) =>
        LET argCount == Byte(vm, 1)
            slot == vm.stackTop - 1 - argCount
            klass == AS_OBJ(Slot(vm, slot))
        IN  IF initializerOf(vm, klass) = NULL /\ argCount # 0
            THEN /\ vm'.stderr = Append(vm.stderr, "Expected 0 arguments but got "
                                                    \o ToString(argCount) \o ".")
                 /\ result' = "INTERPRET_RUNTIME_ERROR"
            ELSE /\ vm'.stderr = vm.stderr
                 /\ IS_OBJ(Slot(vm', slot))
                 /\ AS_OBJ(Slot(vm', slot)) \in Instances(vm') \ Instances(vm)
                 /\ vm'.heap[AS_OBJ(Slot(vm', slot))].klass = klass
                 /\ IF initializerOf(vm, klass) = NULL
                    THEN vm'.frameCount = vm.frameCount /\ vm'.stackTop = vm.stackTop
                    ELSE /\ vm'.frameCount = vm.frameCount + 1
                         /\ vm'.frames[vm'.frameCount].slots = slot
                         /\ vm'.frames[vm'.frameCount].closure = initializerOf(vm, klass)

\* C15: calling a class puts a new instance in the slot of the callee; with an
\* init method the method runs on the arguments and the call evaluates to the
\* instance, whatever the body of init computes; without one the call succeeds
\* with no argument and raises "Expected 0 arguments but got <argc>." with any.
ClassCallMakesInstance ==
    /\ []((Programs[program].name \in ConstructPrograms /\ ~vm.ub) => PrintsAsExpected)
    /\ []((Programs[program].name = "noInit" /\ ~vm.ub) => result # "INTERPRET_OK")
    /\ [][Constructs]_vars

Constructed ==
    /\ Programs[program].name = "construct"
    /\ ~vm.ub
    /\ result = "INTERPRET_OK"
    /\ vm.stdout = expect.stdout

(***************************************************************************)
(* Indexing what cannot be indexed.                                        *)
(***************************************************************************)
IndexPrograms == {"indexNumber", "indexNil", "indexFunc", "listRange", "strKey", "strAssign"}

\* the lists, dicts and strings of the heap
Containers(m) ==
    {object \in 1..Len(m.heap) :
        IsLive(m.heap, object) /\ m.heap[object].type \in {"list", "dict", "string"}}

\* the instruction about to be dispatched is an index read or write
Indexing ==
    /\ Running(vm)
    /\ ~vm.ub
    /\ CanFetch(vm)
    /\ Byte(vm, 0) \in {Op("OP_GET_INDEX"), Op("OP_SET_INDEX")}

\* C16: an index read or write on a target that is no list, string or dict
\* (a number, a boolean, nil among them), with a list or string index that is
\* no number or lies outside 0..length-1, or a write into a string, raises a
\* runtime error and leaves every container as it was.
IndexRefused ==
    (Programs[program].name \in IndexPrograms /\ Indexing) =>
        /\ ~vm'.ub
        /\ vm'.stderr # vm.stderr
        /\ result' = "INTERPRET_RUNTIME_ERROR"
        /\ \A object \in Containers(vm) : vm'.heap[object] = vm.heap[object]

BadIndexRaises == [][IndexRefused]_vars

(***************************************************************************)
(* Keys that cannot be hashed.                                             *)
(***************************************************************************)
UnhashPrograms == {"unhashSet", "unhashGet", "unhashLit"}

\* the keys of the dicts of the heap
DictKeys(m) ==
    UNION {{m.heap[object].values.entries[i].key :
               i \in 1..Len(m.heap[object].values.entries)} :
           object \in {o \in 1..Len(m.heap) : IsLive(m.heap, o) /\ m.heap[o].type = "dict"}}

\* The step that meets the key: the message, the run over with a runtime
\* error, and the key in no dict.
UnhashableRefused ==
    (Programs[program].name \in UnhashPrograms /\ ~vm.ub /\ vm'.stderr # vm.stderr) =>
        /\ ~vm'.ub
        /\ vm'.stderr[Len(vm.stderr) + 1] = "Unhashable type."
        /\ result' = "INTERPRET_RUNTIME_ERROR"
        /\ \A key \in DictKeys(vm') : ~Unhashable(vm'.heap, key)

\* C17: a list, dict, instance, class or function used as the key of a dict,
\* in a dict literal, in d[k] or in d[k] = v, fails with "Unhashable type.":
\* the run ends with the runtime-error status and no entry is stored.
UnhashableKeyFails == [][UnhashableRefused]_vars

(***************************************************************************)
(* A program that does not compile.                                        *)
(***************************************************************************)
BrokenPrograms == {"syntax", "lateError", "returnTop"}

\* no step of the call changes what the claim names
CompilingKeepsState ==
    (Programs[program].name \in BrokenPrograms /\ ~vm'.ub) =>
        /\ vm'.globals = vm.globals
        /\ vm'.frameCount = vm.frameCount
        /\ vm'.stackTop = vm.stackTop
        /\ \A i \in 0..(vm.stackTop - 1) : Slot(vm', i) = Slot(vm, i)
        /\ vm'.stdout = vm.stdout

\* C18: once the compiler has reported an error, compile returns no function
\* and interpret returns INTERPRET_COMPILE_ERROR without running an
\* instruction: the value stack, the frames and the globals are as they were
\* before the call.
CompileErrorRunsNothing ==
    /\ []((vm.parser.hadError /\ ~vm.ub)
            => /\ ~Running(vm)
               /\ result \in {"NONE", "INTERPRET_COMPILE_ERROR"})
    /\ []((Programs[program].name \in BrokenPrograms /\ ~vm.ub)
            => /\ result \in {"NONE", "INTERPRET_COMPILE_ERROR"}
               /\ (result # "NONE" => vm.parser.hadError))
    /\ [][CompilingKeepsState]_vars

CompileFailed ==
    /\ Programs[program].name = "lateError"
    /\ ~vm.ub
    /\ vm.parser.hadError
    /\ result = "INTERPRET_COMPILE_ERROR"

(***************************************************************************)
(* Inheritance.                                                            *)
(***************************************************************************)
InheritPrograms == {"classes", "inherit"}

Classes(m) == {object \in 1..Len(m.heap) : IsLive(m.heap, object) /\ m.heap[object].type = "class"}

\* the instruction about to be dispatched is op
Dispatching(op) == Running(vm) /\ ~vm.ub /\ CanFetch(vm) /\ Byte(vm, 0) = Op(op)

\* OP_INHERIT gives the subclass every method of the superclass.
InheritCopies ==
    (Dispatching("OP_INHERIT") /\ ~vm'.ub /\ vm'.stderr = vm.stderr) =>
        LET superclass == AS_OBJ(peek(vm, 1))
            subclass == AS_OBJ(peek(vm, 0))
            inherited == vm.heap[superclass].methods
        IN  \A i \in 1..inherited.capacity :
                ~IS_EMPTY(inherited.entries[i].key) =>
                    tableGet(vm'.heap, vm'.heap[subclass].methods, inherited.entries[i].key)
                        = [found |-> TRUE, value |-> inherited.entries[i].value]

\* The methods of a class change only when OP_METHOD defines one on it, or
\* when OP_INHERIT fills it as the subclass.
MethodsKept ==
    ~vm'.ub =>
        \A klass \in Classes(vm) :
            (klass \in Classes(vm') /\ vm'.heap[klass].methods # vm.heap[klass].methods) =>
                \/ Dispatching("OP_METHOD") /\ peek(vm, 1) = OBJ_VAL(klass)
                \/ Dispatching("OP_INHERIT") /\ peek(vm, 0) = OBJ_VAL(klass)

\* C19: after `class B < A { ... }` every method of A that B does not redefine
\* can be called on an instance of B, a method B defines wins over A's of the
\* same name, and the definition of B leaves the methods of A as they were.
SubclassInherits ==
    /\ []((Programs[program].name \in InheritPrograms /\ ~vm.ub) => PrintsAsExpected)
    /\ [][InheritCopies /\ MethodsKept]_vars

Inherited ==
    /\ Programs[program].name = "inherit"
    /\ ~vm.ub
    /\ result = "INTERPRET_OK"
    /\ vm.stdout = expect.stdout

(***************************************************************************)
(* The members of a list.                                                  *)
(***************************************************************************)
AppendPrograms == {"lists", "append", "appendEmpty"}

\* the instruction about to be dispatched invokes the member name with
\* argCount arguments on a list
InvokingOnList(name, argCount) ==
    /\ Dispatching("OP_INVOKE")
    /\ vm.heap[READ_STRING(vm, 1)].chars = Chars(name)
    /\ Byte(vm, 2) = argCount
    /\ IS_OBJ(peek(vm, argCount))
    /\ OBJ_TYPE(vm, peek(vm, argCount)) = "list"

\* append(v) on a list of n elements: v is element n, the others stay, and
\* v takes the place of the receiver and the argument on the stack
Appends ==
    (InvokingOnList("append", 1) /\ ~vm'.ub) =>
        /\ vm'.heap[AS_OBJ(peek(vm, 1))].values
               = Append(vm.heap[AS_OBJ(peek(vm, 1))].values, peek(vm, 0))
        /\ vm'.stackTop = vm.stackTop - 1
        /\ peek(vm', 0) = peek(vm, 0)
        /\ vm'.stderr = vm.stderr

\* length() on a list: the number of its elements in place of the receiver
Measures ==
    (InvokingOnList("length", 0) /\ ~vm'.ub) =>
        /\ peek(vm', 0) = NUMBER_VAL(Len(vm.heap[AS_OBJ(peek(vm, 0))].values))
        /\ vm'.heap[AS_OBJ(peek(vm, 0))] = vm.heap[AS_OBJ(peek(vm, 0))]
        /\ vm'.stackTop = vm.stackTop
        /\ vm'.stderr = vm.stderr

HeldValues(m) ==
    {Slot(m, i) : i \in 0..(m.stackTop - 1)}
        \cup {m.globals.entries[i].value : i \in 1..m.globals.capacity}

IsNaN(value) == IS_NUMBER(value) /\ isnan(AS_NUMBER(value))

\* C21, as stated: valuesEqual(a, a) is true for every value the VM holds or
\* computes, every number that arithmetic produces among them.
EqualsItself ==
    ~vm.ub => \A a \in HeldValues(vm) : valuesEqual(a, a)

\* C21, as the code has it: valuesEqual(a, a) is true for nil, the booleans,
\* every object reference and every number but NaN, the result of 0 / 0,
\* for which it is false.
EqualsItselfButNaN ==
    /\ ~vm.ub => \A a \in HeldValues(vm) : valuesEqual(a, a) <=> ~IsNaN(a)
    /\ (Programs[program].name = "nan" /\ ~vm.ub) => PrintsAsExpected

ComparedWithItself ==
    /\ Programs[program].name = "nan"
    /\ Dispatching("OP_EQUAL")
    /\ peek(vm, 0) = peek(vm, 1)
    /\ IS_OBJ(peek(vm, 0))
    /\ \E a \in HeldValues(vm) : IsNaN(a)

(***************************************************************************)
(* Two collections in a row.                                               *)
(***************************************************************************)
\* C22: a collection that follows a collection with no step of the program
\* in between frees nothing: the object list and bytesAllocated are after
\* the second what they were after the first.
SecondCollectionFreesNothing ==
    (~vm.ub /\ ~collectGarbage(vm).ub) =>
        /\ ~collectGarbage(collectGarbage(vm)).ub
        /\ collectGarbage(collectGarbage(vm)).objects = collectGarbage(vm).objects
        /\ collectGarbage(collectGarbage(vm)).heap = collectGarbage(vm).heap
        /\ collectGarbage(collectGarbage(vm)).bytesAllocated
               = collectGarbage(vm).bytesAllocated

CollectedTwice ==
    /\ ~vm.ub
    /\ ~collectGarbage(vm).ub
    /\ Len(collectGarbage(vm).objects) + 2 <= Len(vm.objects)
    /\ collectGarbage(vm).bytesAllocated < vm.bytesAllocated
    /\ collectGarbage(collectGarbage(vm)).objects = collectGarbage(vm).objects

(***************************************************************************)
(* Truthiness.                                                             *)
(***************************************************************************)
\* false or the number 0; an option is a value no program can make
Falsy(value) == value = FALSE_VAL \/ value = NUMBER_VAL(0)

\* OP_NOT puts true in the place of a falsy value and false in the place of
\* any other.
NotTestsFalsy ==
    (Dispatching("OP_NOT") /\ ~vm'.ub /\ vm'.stderr = vm.stderr) =>
        peek(vm', 0) = BOOL_VAL(Falsy(peek(vm, 0)))

\* OP_JUMP_IF_FALSE, which `and`, `or` and `if` compile to, jumps on a falsy
\* value and on no other, and leaves the value where it is.
JumpTestsFalsy ==
    (Dispatching("OP_JUMP_IF_FALSE") /\ ~vm'.ub /\ vm'.stderr = vm.stderr) =>
        /\ vm'.frames[vm.frame].ip
               = vm.frames[vm.frame].ip + 3 + (IF Falsy(peek(vm, 0)) THEN READ_SHORT(vm) ELSE 0)
        /\ vm'.stackTop = vm.stackTop
        /\ peek(vm', 0) = peek(vm, 0)

FatalStep ==
    (~vm.ub /\ ~vm.kill /\ vm'.kill) =>
        (~vm'.ub /\ result' = "INTERPRET_RUNTIME_ERROR")

FatalStepElsewhere == Dispatching("OP_DICT") \/ FatalStep

FatalErrorSeen == vm.kill /\ ~vm.ub /\ result = "INTERPRET_RUNTIME_ERROR"

(***************************************************************************)
(* Building a list or a dict.                                              *)
(***************************************************************************)
Building == Dispatching("OP_LIST") \/ Dispatching("OP_DICT")

\* The container is built whole: it is left on the stack, alive, with the
\* values it was built from, alive as well.
BuildKeepsAll ==
    (Building /\ vm'.stderr = vm.stderr) =>
        /\ ~vm'.ub
        /\ IS_OBJ(peek(vm', 0)) /\ IsLive(vm'.heap, AS_OBJ(peek(vm', 0)))
        /\ \A i \in 0..(vm.stackTop - vm'.stackTop) :
               IS_OBJ(peek(vm, i)) => IsLive(vm'.heap, AS_OBJ(peek(vm, i)))

\* C25: while OP_LIST or OP_DICT builds a container from the values on top
\* of the stack, the container and every value copied into it stay reachable
\* from a root at each allocation of the instruction, so a collection during
\* the construction frees none of them.
BuildSurvivesCollection == [][BuildKeepsAll]_vars

\* a container built from values, with a collection during the instruction
BuiltAcrossCollection ==
    /\ Building /\ Byte(vm, 1) > 0
    /\ vm.stressGC

(***************************************************************************)
(* The object list after a collection.                                     *)
(***************************************************************************)
Listed(m) == {m.objects[i] : i \in 1..Len(m.objects)}

\* the objects the mark phase reaches: the roots and what blackenObject follows
Marked(m) == traceReferences(m.heap, markRoots(m) \ {NULL})

\* C26: after a collection the object list holds exactly the objects that
\* were reachable from the roots when it started, each once, and every one
\* of them has its mark cleared.
ListIsTheReachable ==
    (~vm.ub /\ ~collectGarbage(vm).ub /\ \A object \in FromRoots(vm) : IsLive(vm.heap, object)) =>
        /\ Listed(collectGarbage(vm)) = FromRoots(vm)
        /\ Cardinality(Listed(collectGarbage(vm))) = Len(collectGarbage(vm).objects)
        /\ \A object \in Listed(collectGarbage(vm)) :
               /\ IsLive(collectGarbage(vm).heap, object)
               /\ ~collectGarbage(vm).heap[object].isMarked

\* the same of the objects the mark phase reaches
ListIsTheMarked ==
    (~vm.ub /\ ~collectGarbage(vm).ub) =>
        /\ Listed(collectGarbage(vm)) = Marked(vm)
        /\ Cardinality(Listed(collectGarbage(vm))) = Len(collectGarbage(vm).objects)
        /\ \A object \in Listed(collectGarbage(vm)) :
               /\ IsLive(collectGarbage(vm).heap, object)
               /\ ~collectGarbage(vm).heap[object].isMarked

\* a collection that frees an object a dict of the program refers to
ReachableSwept ==
    /\ ~vm.ub /\ ~collectGarbage(vm).ub
    /\ \A object \in FromRoots(vm) : IsLive(vm.heap, object)
    /\ FromRoots(vm) \ Listed(collectGarbage(vm)) # {}

(***************************************************************************)
(* The bytes counted and the bytes given back.                             *)
(***************************************************************************)
\* the most entry arrays of one size replaced in a run
MaxReplaced == 4

\* the run is over and main goes on to freeVM
RunOver == result # "NONE" /\ ~vm.ub

\* C27: every block counted into bytesAllocated is released and counted out
\* by freeVM, the entry arrays replaced when a table grows included, so
\* bytesAllocated is 0 after freeVM.
FreeVMReleasesAll == RunOver => freeVM(vm).bytesAllocated = 0

\* what is left is the entry arrays that adjustCapacity has replaced: the
\* arrays of eight entries, and of sixteen in a table grown twice
OnlyReplacedArraysLeft ==
    RunOver => \E eights, sixteens \in 0..MaxReplaced :
                   freeVM(vm).bytesAllocated
                       = SizeOf("Entry") * (8 * eights + 16 * sixteens)

\* a run that has grown a table beyond its first entry array
TableHasGrown == RunOver /\ vm.strings.capacity > 8

(***************************************************************************)
(* Where the upvalues of the closures point.                               *)
(***************************************************************************)
\* the closures a chain of references from a root reaches
LiveClosures(m) ==
    {object \in FromRoots(m) : IsLive(m.heap, object) /\ m.heap[object].type = "closure"}

\* closed, or open on a slot of the stack in use and on the list of the VM
WellPlaced(m, upvalue) ==
    /\ IsLive(m.heap, upvalue)
    /\ \/ m.heap[upvalue].location = -1
       \/ /\ m.heap[upvalue].location \in 0..(m.stackTop - 1)
          /\ \E i \in 1..Len(OpenUpvalues(m)) : OpenUpvalues(m)[i] = upvalue

UpvaluesWellPlaced(m) ==
    \A closure \in LiveClosures(m) :
        \A i \in 1..Len(m.heap[closure].upvalues) :
            m.heap[closure].upvalues[i] # NULL => WellPlaced(m, m.heap[closure].upvalues[i])

\* C28: after every instruction every upvalue of a live closure is closed,
\* or open with its location a slot of [stack, stackTop) and itself on the
\* open list of the VM; after a runtime error has reset the stack as well.
UpvaluesPointIntoStack == ~vm.ub => UpvaluesWellPlaced(vm)

\* the same up to the first runtime error, where no class has a superclass
\* and no block has a captured local
UpvaluesPointIntoStackOtherwise ==
    (/\ ~vm.ub /\ vm.stderr = <<>>
     /\ Programs[program].name # "blockCapture"
     /\ \A i \in 1..Len(Programs[program].source) : Programs[program].source[i] # "super")
        => UpvaluesWellPlaced(vm)

\* a closure with an open upvalue is live when a runtime error is raised
ErrorWithOpenUpvalue ==
    /\ ~vm.ub /\ result = "INTERPRET_RUNTIME_ERROR"
    /\ \E closure \in LiveClosures(vm) :
           \E i \in 1..Len(vm.heap[closure].upvalues) :
               /\ vm.heap[closure].upvalues[i] # NULL
               /\ IsLive(vm.heap, vm.heap[closure].upvalues[i])
               /\ vm.heap[vm.heap[closure].upvalues[i]].location >= 0

(***************************************************************************)
(* Deleting from a table.                                                  *)
(***************************************************************************)
\* the slots that hold a key, and the slots tableDelete has left behind
LiveSlots(t) == {i \in 1..t.capacity : ~IS_EMPTY(t.entries[i].key)}

Tombstones(t) ==
    {i \in 1..t.capacity : IS_EMPTY(t.entries[i].key) /\ ~IS_NIL(t.entries[i].value)}

\* the keys set and not deleted since
Held(e) == {k \in DOMAIN e : e[k] # ABSENT}

\* tableDelete of a key that is held: the key is gone, every other key is
\* found as before, the count is what it was
DeleteLeavesTombstone ==
    \A k \in TableKeys :
        (/\ k \in Held(expect)
         /\ table' = tableDelete(vm.heap, table, k).table
         /\ expect' = [expect EXCEPT ![k] = ABSENT]) =>
            /\ ~tableGet(vm.heap, table', k).found
            /\ \A other \in DOMAIN expect \ {k} :
                   tableGet(vm.heap, table', other) = tableGet(vm.heap, table, other)
            /\ table'.count = table.count

\* tableSet of a key that is not held, in the entry array as it is: the
\* count is one more, or the same where there was a tombstone to take
SetReusesTombstone ==
    \A k \in TableKeys, v \in TableValues :
        (/\ k \notin Held(expect)
         /\ ~tableMustGrow(table)
         /\ table' = tableSet(vm.heap, table, k, v).table
         /\ expect' = [expect EXCEPT ![k] = v]) =>
            \/ table'.count = table.count + 1
            \/ table'.count = table.count /\ Tombstones(table) # {}

\* tableSet that grows the table: the count is the number of keys held
GrowthCountsLiveKeys ==
    \A k \in TableKeys, v \in TableValues :
        (/\ tableMustGrow(table)
         /\ table' = tableSet(vm.heap, table, k, v).table
         /\ expect' = [expect EXCEPT ![k] = v]) =>
            table'.count = Cardinality(Held(expect'))

\* the same where the key true is not among the keys held
GrowthCountsOtherKeys ==
    \A k \in TableKeys, v \in TableValues :
        (/\ tableMustGrow(table)
         /\ table' = tableSet(vm.heap, table, k, v).table
         /\ expect' = [expect EXCEPT ![k] = v]
         /\ TRUE_VAL \notin Held(expect')) =>
            table'.count = Cardinality(Held(expect'))

\* C29: tableDelete of a present key makes tableGet of it fail and leaves
\* every other key retrievable with its value, the keys whose probe passes
\* the deleted slot included; it does not lower count; a later tableSet of a
\* new key may take the tombstone without raising count; a growth rebuilds
\* the table with count the number of live keys.
DeleteKeepsOthers ==
    [][DeleteLeavesTombstone /\ SetReusesTombstone /\ GrowthCountsLiveKeys]_vars

\* the claim but for the growth of a table that holds the key true
DeleteKeepsOtherKeys ==
    [][DeleteLeavesTombstone /\ SetReusesTombstone /\ GrowthCountsOtherKeys]_vars

\* a key is found past the tombstone of a key it had collided with
FoundPastTombstone ==
    /\ expect[NUMBER_VAL(0)] = ABSENT
    /\ expect[NUMBER_VAL(MaxNumberKey)] # ABSENT
    /\ tableGet(vm.heap, table, NUMBER_VAL(MaxNumberKey)).found
    /\ \E i \in Tombstones(table) :
           i - 1 = hashValue(vm.heap, NUMBER_VAL(MaxNumberKey)) % table.capacity

(***************************************************************************)
(* The intern table across a collection.                                   *)
(***************************************************************************)
\* the keys of the intern table
Interned(m) ==
    {m.strings.entries[i].key : i \in 1..m.strings.capacity} \ {EMPTY_VAL}

\* the strings a collection started now would free
Collected(m) == {freed \in Strings(m) : ~IsLive(collectGarbage(m).heap, freed)}

\* copyString, after the collection, of the bytes of a string it has freed
InternedAnew(m, freed) == copyString(collectGarbage(m), m.heap[freed].chars)

\* C30: after a collection every key of the intern table is a string that
\* has survived the sweep, and interning the bytes of a collected string
\* then gives a valid string, newly allocated.  (allocateString pushes the
\* new string: the stack pointer has to be in the stack, which it is until
\* the script returns.)
InternTableIsWeak ==
    (~vm.ub /\ ~collectGarbage(vm).ub) =>
        /\ \A key \in Interned(collectGarbage(vm)) :
               /\ IS_OBJ(key)
               /\ AS_OBJ(key) \in Strings(collectGarbage(vm))
        /\ \A freed \in Collected(vm) :
               vm.stackTop >= 0 =>
                   /\ ~InternedAnew(vm, freed).m.ub
                   /\ InternedAnew(vm, freed).ref \notin 1..Len(vm.heap)
                   /\ InternedAnew(vm, freed).ref \in Strings(InternedAnew(vm, freed).m)
                   /\ InternedAnew(vm, freed).m.heap[InternedAnew(vm, freed).ref].chars
                          = vm.heap[freed].chars
                   /\ OBJ_VAL(InternedAnew(vm, freed).ref)
                          \in Interned(InternedAnew(vm, freed).m)

\* a collection frees an interned string, and its bytes are interned again
StringCollected ==
    /\ ~vm.ub /\ ~collectGarbage(vm).ub /\ vm.stackTop >= 0
    /\ \E freed \in Collected(vm) :
           /\ OBJ_VAL(freed) \in Interned(vm)
           /\ OBJ_VAL(freed) \notin Interned(collectGarbage(vm))
           /\ InternedAnew(vm, freed).ref \in Strings(InternedAnew(vm, freed).m)

(***************************************************************************)
(* Reading a property.                                                     *)
(***************************************************************************)
\* OP_GET_PROPERTY that has found the property
PropertyFound == Dispatching("OP_GET_PROPERTY") /\ ~vm'.ub /\ vm'.stderr = vm.stderr

\* the receiver is replaced by the result: the stack is as high as it was
\* and the slots below the top are what they were
ReceiverReplaced ==
    PropertyFound =>
        /\ vm'.stackTop = vm.stackTop
        /\ \A i \in 0..(vm.stackTop - 2) : Slot(vm', i) = Slot(vm, i)

\* the same for a receiver that is an instance
InstanceReplaced ==
    (PropertyFound /\ OBJ_TYPE(vm, peek(vm, 0)) = "instance") =>
        /\ vm'.stackTop = vm.stackTop
        /\ IF tableGet(vm.heap, vm.heap[AS_OBJ(peek(vm, 0))].fields,
                       OBJ_VAL(READ_STRING(vm, 1))).found
           THEN peek(vm', 0) = tableGet(vm.heap, vm.heap[AS_OBJ(peek(vm, 0))].fields,
                                        OBJ_VAL(READ_STRING(vm, 1))).value
           ELSE /\ OBJ_TYPE(vm', peek(vm', 0)) = "boundMethod"
                /\ vm'.heap[AS_OBJ(peek(vm', 0))].receiver = peek(vm, 0)

\* C31: OP_GET_PROPERTY has net stack effect 0 for every kind of receiver
\* that has the property: the receiver on top of the stack is replaced by
\* the field or the bound method of an instance, and by the bound native of
\* a string, list, dict or option.
GetPropertyReplacesReceiver == [][ReceiverReplaced /\ InstanceReplaced]_vars

GetPropertyReplacesInstance == [][InstanceReplaced]_vars

\* a member of a list is read
MemberOfListRead ==
    /\ Dispatching("OP_GET_PROPERTY")
    /\ IS_OBJ(peek(vm, 0)) /\ OBJ_TYPE(vm, peek(vm, 0)) = "list"
    /\ tableGet(vm.heap, vm.builtins.listMembers, OBJ_VAL(READ_STRING(vm, 1))).found

(***************************************************************************)
(* Assigning to an index.                                                  *)
(***************************************************************************)
\* OP_SET_INDEX that has assigned
IndexAssigned == Dispatching("OP_SET_INDEX") /\ ~vm'.ub /\ vm'.stderr = vm.stderr

\* what a read of the index of the target gives after the assignment
ReadBack(m, object, index) ==
    IF OBJ_TYPE(m, object) = "dict"
    THEN tableGet(m.heap, m.heap[AS_OBJ(object)].values, index)
    ELSE [found |-> TRUE, value |-> m.heap[AS_OBJ(object)].values[AS_NUMBER(index) + 1]]

\* value, index and target are popped and the value is pushed once; the
\* index of the target now reads as the value
AssignedOnce ==
    IndexAssigned =>
        /\ vm'.stackTop = vm.stackTop - 2
        /\ peek(vm', 0) = peek(vm, 0)
        /\ ReadBack(vm', peek(vm, 2), peek(vm, 1)) = [found |-> TRUE, value |-> peek(vm, 0)]

\* the same for a list
ListAssignedOnce == (IndexAssigned /\ OBJ_TYPE(vm, peek(vm, 2)) = "list") => AssignedOnce

\* C32: OP_SET_INDEX pops the value, the index and the target and pushes the
\* assigned value exactly once, net stack effect -2, for a list and for a
\* dict, and a read of the same index or key afterwards yields that value.
SetIndexPushesOnce == [][AssignedOnce]_vars

SetIndexPushesOnceOnList == [][ListAssignedOnce]_vars

\* an element of a list has been assigned
ListElementAssigned ==
    /\ Dispatching("OP_SET_INDEX") /\ OBJ_TYPE(vm, peek(vm, 2)) = "list"
    /\ IS_NUMBER(peek(vm, 1)) /\ AS_NUMBER(peek(vm, 1)) \in 0..(Len(vm.heap[AS_OBJ(peek(vm, 2))].values) - 1)

(***************************************************************************)
(* Invoking on a value without properties.                                 *)
(***************************************************************************)
\* the receiver of the OP_INVOKE about to run
Receiver(m) == peek(m, Byte(m, 2))

\* a number, a boolean, nil, a function (its closure), a native or a class
HasNoProperties(m, value) ==
    \/ IS_NUMBER(value) \/ IS_BOOL(value) \/ IS_NIL(value)
    \/ IS_OBJ(value) /\ IsLive(m.heap, AS_OBJ(value))
                     /\ m.heap[AS_OBJ(value)].type \in {"closure", "function", "native", "class"}

InvokeRefused ==
    (Dispatching("OP_INVOKE") /\ HasNoProperties(vm, Receiver(vm))) =>
        /\ ~vm'.ub
        /\ vm'.stderr = Append(vm.stderr, "Value has no properties.")
        /\ result' = "INTERPRET_RUNTIME_ERROR"

\* the same for a receiver that is an object
InvokeOnObjectRefused ==
    (Dispatching("OP_INVOKE") /\ IS_OBJ(Receiver(vm))) => InvokeRefused

\* C33: OP_INVOKE on a receiver that has no properties, a number, boolean,
\* nil, function, native or class, raises "Value has no properties."; the
\* receiver is looked at as a heap object only when it is an object.
InvokeWithoutProperties == [][InvokeRefused]_vars

InvokeOnObjectWithoutProperties == [][InvokeOnObjectRefused]_vars

\* a method is invoked on a class
InvokedOnClass ==
    /\ Dispatching("OP_INVOKE") /\ IS_OBJ(Receiver(vm))
    /\ OBJ_TYPE(vm, Receiver(vm)) = "class"

(***************************************************************************)
(* The end of a block scope.                                               *)
(***************************************************************************)
\* the instructions endScope emits, one for each local of the scope
ScopeEndStep == Dispatching("OP_POP") \/ Dispatching("OP_CLOSE_UPVALUE")

ScopeEndKeepsUpvalues ==
    (ScopeEndStep /\ UpvaluesWellPlaced(vm) /\ ~vm'.ub) => UpvaluesWellPlaced(vm')

\* C34: at the end of a block scope a local that a closure captured is
\* closed and the other locals are popped: no instruction of the scope's end
\* takes a cell off the stack while an open upvalue still points at it.
ScopeEndClosesCaptured == [][ScopeEndKeepsUpvalues]_vars

\* C34, the values: the closure made in the block of the blockCapture
\* program goes on reading and writing the closed local and the program
\* prints 2 and 3.
ClosedLocalKeepsValue ==
    (Programs[program].name = "blockCapture" /\ result # "NONE" /\ ~vm.ub)
        => /\ result = "INTERPRET_OK"
           /\ vm.stdout = expect.stdout

\* the close instruction of a scope's end runs while an upvalue is open
ScopeEndWithOpenUpvalue ==
    Dispatching("OP_CLOSE_UPVALUE") /\ vm.openUpvalues # NULL

(***************************************************************************)
(* The bounds of the stack pointer.                                        *)
(***************************************************************************)
\* C35: stackTop stays within [stack, stack + STACK_MAX] at every step and
\* when interpret returns, whatever the status.
StackTopInBounds == ~vm.ub => vm.stackTop \in 0..STACK_MAX

\* C35, the end of a run: after INTERPRET_OK the stack is empty.
StackEmptyAfterOk == (result = "INTERPRET_OK" /\ ~vm.ub) => vm.stackTop = 0

\* the upper bound alone
StackTopBelowMax == ~vm.ub => vm.stackTop <= STACK_MAX

\* the lower bound while instructions are executed
StackTopAboveBaseWhileRunning == (Running(vm) /\ ~vm.ub) => vm.stackTop >= 0

(***************************************************************************)
(* The REPL (main.c): one VM interprets line after line.  The model reads  *)
(* one line after the program: a line without errors.                      *)
(***************************************************************************)
NextLine == [source |-> <<"print", "1", ";", "print", "2", ";">>,
             stdout |-> <<Chars("1"), Chars("2")>>]

\* the loop of repl after interpret has returned: the next line is handed to
\* interpret on the same VM; expect keeps how the call before ended
repl ==
    /\ result # "NONE" /\ ~vm.ub /\ vm.parser.calls = <<>>
    /\ "line" \notin DOMAIN expect
    /\ vm' = [vm EXCEPT !.parser.calls = <<Frame("interpret", NextLine.source, 0)>>]
    /\ result' = "NONE"
    /\ expect' = [stdout |-> vm.stdout \o NextLine.stdout, marks |-> {0}, line |-> 2,
                  status |-> result, kill |-> vm.kill, stderr |-> vm.stderr]
    /\ UNCHANGED <<program, table>>

NextRepl == Next \/ repl

SpecRepl == Init /\ [][NextRepl]_vars

\* the second interpret call has returned
NextLineDone == "line" \in DOMAIN expect /\ result # "NONE" /\ ~vm.ub

\* C36: after a fatal error in one interpret call, the next interpret of a
\* program without errors on the same VM executes all of its instructions
\* and returns INTERPRET_OK.
FatalErrorDoesNotLeak ==
    (NextLineDone /\ expect.kill)
        => /\ result = "INTERPRET_OK"
           /\ vm.stdout = expect.stdout

\* the same after a runtime error that was not fatal
RuntimeErrorDoesNotLeak ==
    (NextLineDone /\ ~expect.kill /\ expect.status = "INTERPRET_RUNTIME_ERROR")
        => /\ result = "INTERPRET_OK"
           /\ vm.stdout = expect.stdout

\* a line has been interpreted after a call that raised a fatal error
LineAfterFatalError == NextLineDone /\ expect.kill

(***************************************************************************)
(* Defining a global.                                                      *)
(***************************************************************************)
\* what the globals table holds for the name of the instruction
Defined(m, name) == tableGet(m.heap, m.globals, name)

GlobalDefined ==
    (Dispatching("OP_DEFINE_GLOBAL") /\ ~vm'.ub) =>
        /\ Defined(vm', READ_CONSTANT(vm, 1)) = [found |-> TRUE, value |-> peek(vm, 0)]
        /\ IS_OBJ(peek(vm, 0)) => IsLive(vm'.heap, AS_OBJ(peek(vm, 0)))

\* C37: DEFINE_GLOBAL stores the value on top of the stack under the name,
\* and the value is no freed object once the instruction is over, whether
\* the insertion has grown the globals table and collected or not.
DefinedGlobalIsLive == [][GlobalDefined]_vars

\* the same for the definitions that find room in the table
GlobalDefinedInPlace ==
    (Dispatching("OP_DEFINE_GLOBAL") /\ ~tableMustGrow(vm.globals)) => GlobalDefined

DefinedGlobalIsLiveInPlace == [][GlobalDefinedInPlace]_vars

\* an object is defined as a global by an insertion that collects
GlobalDefinedWhileCollecting ==
    /\ Dispatching("OP_DEFINE_GLOBAL") /\ IS_OBJ(peek(vm, 0))
    /\ tableMustGrow(vm.globals) /\ vm.stressGC

(***************************************************************************)
(* The soft keyword dict.                                                  *)
(***************************************************************************)
\* variable has handed the identifier, still the previous token, to fn
Entered(fn) ==
    ~vm.ub /\ vm.parser.calls # <<>> /\ Top(vm).fn = fn /\ Top(vm).at = 0

\* C38: an identifier followed by `{` is compiled as a dict literal when it
\* is exactly `dict`, and as a variable access when it is any other
\* identifier.
DictIsTheOnlyKeyword ==
    /\ Entered("dict") => vm.parser.previous = "dict"
    /\ (Entered("namedVariable") /\ check(vm, "TOKEN_LEFT_BRACE")) => Top(vm).a # "dict"

\* the same for the identifiers that are not the beginning of the word dict
NoOtherKeywordButPrefixes ==
    /\ Entered("dict") =>
           \E n \in 1..4 : Chars(vm.parser.previous) = SubSeq(Chars("dict"), 1, n)
    /\ (Entered("namedVariable") /\ check(vm, "TOKEN_LEFT_BRACE")) => Top(vm).a # "dict"

\* an identifier longer than dict that begins with it stands before a brace
LongerNameBeforeBrace ==
    Entered("namedVariable") /\ check(vm, "TOKEN_LEFT_BRACE") /\ Top(vm).a = "dicts"

(***************************************************************************)
(* Closures that capture the same local.                                   *)
(***************************************************************************)
\* the upvalues of a closure that have been captured
UpvaluesOf(m, closure) ==
    {m.heap[closure].upvalues[i] : i \in 1..Len(m.heap[closure].upvalues)} \ {NULL}

\* two live closures hold this upvalue
Shared(m, upvalue) ==
    \E c1, c2 \in LiveClosures(m) :
        c1 # c2 /\ upvalue \in UpvaluesOf(m, c1) /\ upvalue \in UpvaluesOf(m, c2)

\* the open upvalues of live closures on one slot of the stack are one upvalue
OneUpvalueForASlot(m) ==
    \A c1, c2 \in LiveClosures(m) :
        \A u1 \in UpvaluesOf(m, c1), u2 \in UpvaluesOf(m, c2) :
            (/\ IsLive(m.heap, u1) /\ IsLive(m.heap, u2)
             /\ m.heap[u1].location >= 0
             /\ m.heap[u1].location = m.heap[u2].location) => u1 = u2

\* C39: two closures that capture the same local share one upvalue, and what
\* is assigned through either of them or by the enclosing function is what
\* the other reads, before and after the local is closed: the shared program
\* prints 2, 2, 3 while the local is on the stack and 3, 4 once it is closed.
ClosuresShareUpvalue ==
    ~vm.ub =>
        /\ OneUpvalueForASlot(vm)
        /\ (Programs[program].name = "shared" /\ result # "NONE")
               => (result = "INTERPRET_OK" /\ vm.stdout = expect.stdout)

\* the shared program has run to its end and two closures hold one closed
\* upvalue, which holds the value last assigned through one of them
SharedAfterClose ==
    /\ ~vm.ub /\ Programs[program].name = "shared" /\ result = "INTERPRET_OK"
    /\ \E upvalue \in 1..Len(vm.heap) :
           /\ Shared(vm, upvalue)
           /\ vm.heap[upvalue].location = -1
           /\ vm.heap[upvalue].closed = NUMBER_VAL(4)

\* one open upvalue is held by two closures
SharedWhileOpen ==
    /\ ~vm.ub
    /\ \E upvalue \in 1..Len(vm.heap) : Shared(vm, upvalue) /\ vm.heap[upvalue].location >= 0

(***************************************************************************)
(* The four operations that change a table, driven directly on one table:  *)
(* tableSet, tableDelete, tableAddAll from a table of Sources, and         *)
(* tableRemoveWhite with the string key marked or not.                     *)
(***************************************************************************)
\* the loop of tableAddAll on a table that is no field of the machine
RECURSIVE AddAll(_, _, _, _)
AddAll(h, from, to, i) ==
    IF i > from.capacity THEN to
    ELSE AddAll(h, from,
                IF IS_EMPTY(from.entries[i].key) THEN to
                ELSE tableSet(h, to, from.entries[i].key, from.entries[i].value).table,
                i + 1)

\* the tables tableAddAll copies from: some of the prefilled keys, or one key
Sources ==
    {Prefilled(vm.heap, n) : n \in 0..MaxPrefill}
        \cup {tableSet(vm.heap, initTable, k, NUMBER_VAL(1)).table : k \in TableKeys}

\* the key is held by a slot of the table
HeldBy(t, k) == \E i \in 1..t.capacity : ~IS_EMPTY(t.entries[i].key) /\ t.entries[i].key = k

ValueIn(t, k) ==
    t.entries[CHOOSE i \in 1..t.capacity :
                  ~IS_EMPTY(t.entries[i].key) /\ t.entries[i].key = k].value

TableAddAll ==
    \E from \in Sources :
        /\ AddAll(vm.heap, from, table, 1).capacity <= MaxCapacity
        /\ table' = AddAll(vm.heap, from, table, 1)
        /\ expect' = [k \in DOMAIN expect |->
                         IF HeldBy(from, k) THEN ValueIn(from, k) ELSE expect[k]]
        /\ UNCHANGED <<vm, result, program>>

TableRemoveWhite ==
    \E marked \in SUBSET {vm.initString} :
        /\ table' = tableRemoveWhite(vm.heap, table, marked)
        /\ expect' = [k \in DOMAIN expect |->
                         IF IS_OBJ(k) /\ AS_OBJ(k) \notin marked THEN ABSENT ELSE expect[k]]
        /\ UNCHANGED <<vm, result, program>>

NextTables == TableSet \/ TableDelete \/ TableAddAll \/ TableRemoveWhite

SpecTables == InitTable /\ [][NextTables]_vars

\* the slots that are not truly empty: they hold a key or a tombstone
Occupied(t) ==
    {i \in 1..t.capacity : ~(IS_EMPTY(t.entries[i].key) /\ IS_NIL(t.entries[i].value))}

TableSound(h, t, keys) ==
    /\ t.capacity = 0 \/ \E n \in 0..30 : t.capacity = 2 ^ n
    /\ Len(t.entries) = t.capacity
    /\ 4 * t.count <= 3 * t.capacity
    /\ Cardinality(Occupied(t)) <= t.count
    /\ t.capacity > 0 =>
           /\ Occupied(t) # 1..t.capacity
           /\ \A k \in keys : findEntry(h, t.entries, t.capacity, k) \in 0..(t.capacity - 1)

\* C40: after any sequence of tableSet, tableDelete, tableAddAll and
\* tableRemoveWhite the capacity of the table is 0 or a power of two, count
\* is at most 0.75 x capacity and no less than the number of slots that hold
\* a key or a tombstone, so a truly empty slot is left and the probe of
\* findEntry ends for every key.
TableKeepsEmptySlot == TableSound(vm.heap, table, DOMAIN expect)

\* the same for the table of interned strings of a running machine, which
\* tableFindString probes
StringsKeepEmptySlot ==
    ~vm.ub => /\ TableSound(vm.heap, vm.strings, {})
              /\ TableSound(vm.heap, vm.globals, {})

\* the table has grown, holds a tombstone and is filled to the limit
FullTableWithTombstone ==
    /\ table.capacity > GROW_CAPACITY(0)
    /\ 4 * (table.count + 1) > 3 * table.capacity
    /\ \E i \in 1..table.capacity :
           IS_EMPTY(table.entries[i].key) /\ ~IS_NIL(table.entries[i].value)

====
